---- MODULE Spec2Model ----
(***************************************************************************)
(* Streaming batch evaluation pipeline of the CS-25 graph backend          *)
(* (backend/src/graphs/cs25_graph/agent.py): stream_all_traces drives one   *)
(* _stream_batch_parallel generator per batch; each batch creates one      *)
(* asyncio task per leaf (one -> _call_with_retry -> AsyncAgent.run) and    *)
(* the consuming loop emits events as tasks resolve.                        *)
(*                                                                         *)
(* Time is counted in tenths of a time-unit (0.6 -> 6, 6 -> 60, 0.4 -> 4). *)
(*                                                                         *)
(* Next to the pipeline: the selection of the leaves at the head of        *)
(* stream_all_traces (caller subset, limit), and the graph engine          *)
(* (backend/src/graphs/cs25_graph/utils.py): the upward walk of            *)
(* _build_trace / _build_trace_from_node and _collect_intents.             *)
(***************************************************************************)
EXTENDS Integers, Sequences, FiniteSets, TLC

\* ------------------------------------------------------------------------
\* Bounds of the model
\* ------------------------------------------------------------------------
MaxLeaves == 3
MaxBatch == 2
MaxRetryLeaves == 2
\* longest list of leaves in the runs checked with a fair event loop
MaxLiveLeaves == 3
\* longest list of leaves in the runs with traversal misses
MaxMissLeaves == 2
\* Trace nodes of the graph, and longest caller subset, of a selection
MaxTraces == 3
MaxSelected == 3
\* nodes and CONTAINS edges of the graphs walked upward; edges of the graphs
\* with intents
MaxNodes == 3
MaxEdges == 2
MaxIntentEdges == 3
\* files of a bundle, and lines of a nodes or edges file
MaxFiles == 3
MaxLines == 2
\* children of one parent in the graphs of the outline, and Traces anchored
MaxSiblings == 2
MaxAnchors == 2

\* ------------------------------------------------------------------------
\* Program constants
\* ------------------------------------------------------------------------
max_retries == 5
DelayInit == 6
DelayCap == 60
JitterMax == 4
\* 429 not taken for a retryable status
RetryableCodes_Without429 == {500, 502, 503, 504}

\* 501 taken for a retryable status
RetryableCodes_With501 == {429, 500, 501, 502, 503, 504}

RetryableCodes == {429, 500, 502, 503, 504}

\* ------------------------------------------------------------------------
\* Inputs
\* ------------------------------------------------------------------------
\* A leaf (Trace node) as the pipeline sees it:
\*   "ok"        bottom_uuid present, blocks can be assembled
\*   "absent"    bottom_uuid names no node of the graph: _build_trace
\*               returns [], the blocks are built from the empty trace and
\*               the capability is called as for any other leaf
\*   "missing"   the Trace node has no bottom_uuid
\*   "malformed" the Section above the paragraph has no "number": _build_trace
\*               stores number = None and format_trace_block calls
\*               None.replace(...), which raises AttributeError
LeafKinds == {"ok", "missing", "malformed"}

\* the kinds of the runs with traversal misses
MissKinds == LeafKinds \cup {"absent"}

\* Outcomes of one AsyncAgent.run call: a result, an APIStatusError with a
\* status code, or an exception that is not an APIStatusError (timeout,
\* connection error, parse failure of the structured output ...).
StatusCodes == {429, 500, 502, 503, 504, 400, 501}

Outcome(cls, code) == [cls |-> cls, code |-> code]

NoOutcome == Outcome("-", 0)

Returned == Outcome("ok", 0)

OtherException == Outcome("Exception", 0)

StatusError(c) == Outcome("APIStatusError", c)

Failures == {StatusError(c) : c \in StatusCodes} \cup {OtherException}

\* The failures and jitter values drawn in the runs of the whole pipeline:
\* one retryable status, one non-retryable status, one other exception; the
\* two ends of random.uniform(0, 0.4).
PipelineFailures == {StatusError(429), StatusError(400), OtherException}

PipelineJitters == {0, JitterMax}

\* Token usage (input_tokens, output_tokens) reported by a successful call.
Usages == {<<1, 2>>, <<3, 1>>}

Jitters == 0..JitterMax

\* The capability of a run: unscripted, any call may return or fail; or a
\* double that fails the first "failures" calls of every item with a
\* transient failure and then succeeds.
Unscripted == [scripted |-> FALSE, failures |-> 0]

FailsFirst(n) == [scripted |-> TRUE, failures |-> n]

VARIABLES
    leaves,            \* all_traces: sequence of leaf kinds, leaf id = position
    batch_size,        \* batch_size argument
    pc,                \* where the generators are suspended
    stopped,           \* the consumer has stopped iterating
    batches,           \* chunked(all_traces, batch_size)
    cur,               \* i of "for i, batch in enumerate(batches, start=1)"
    done,              \* done counter of _stream_batch_parallel
    batch_in_tokens,
    batch_out_tokens,
    total_in_tokens,
    total_out_tokens,
    task,              \* per leaf: the asyncio task running one(item)
    completed,         \* as_completed: ids of resolved tasks not yet awaited
    events,            \* every event yielded to the consumer, in order
    upstream,          \* failures the capability can answer with in this run
    jitters,           \* values random.uniform(0, 0.4) can take in this run
    inject,            \* failures injected into the capability in this run
    \* the selection at the head of stream_all_traces
    graph_traces,      \* iter_trace_nodes(G): Trace ids in graph order
    selected_trace_ids, \* Optional[List[str]]: <<>> is None, <<ids>> a list
    limit,             \* Optional[int]: <<>> is None, <<n>> an int
    picked,            \* all_traces after the filter and the limit
    spc,               \* position of the selection call
    \* one call of GraphOps on a graph
    G,                 \* the graph: node types and edges in insertion order
    fn,                \* the traversal called
    bottom_uuid,       \* its argument
    gpc,               \* position of the call
    cur_uuid,          \* "cur" of the upward walk
    visited,
    path,
    trace,             \* the list the traversal returned
    intents_by_node,   \* result of _collect_intents
    \* one ManifestGraph object and the corpus directory it reads
    manifest,          \* self.manifest: the "integrity" entry of manifest.json
    nodes_files,       \* self.nodes_files: paths in manifest order
    edges_files,       \* self.edges_files
    index_path,        \* self.index_path: Optional[Path]
    disk,              \* path -> the lines of the file
    self_G,            \* self.G: Optional[MultiDiGraph]
    load_result,       \* payload returned by the last load()
    integrity_result,  \* "integrity" returned by the last public call
    lpc,               \* the last public call made on the object
    \* one GraphOps object
    ops_G,             \* self.G with the attributes the builders read
    outline,           \* what the last build_outline_for_frontend() returned
    prior,             \* what the call before it returned
    section_traces,    \* what build_section_traces_for_frontend() returned
    opc,               \* the last builder called
    results,           \* per outline node: the items in its "results" list
    \* one call of cluster_needs_pipeline
    need_items,        \* the items argument: need_id and statement of each
    k_arg,             \* the k argument, None for the automatic choice
    cpc,               \* the position of the call
    k_auto,            \* what choose_best_k returned
    labels,            \* the label kmeans_cluster gave each usable item
    cluster_result,    \* the dict returned
    \* one run of the node find_relevant_sections_llm
    produced,          \* the types of the events stream_all_traces has yielded
    relayed,           \* the events given to the bus: type, and the position
                       \* in produced of the event wrapped (0: the node's own)
    recent,            \* a progress tick was relayed less than 0.05 s ago
    rpc,               \* the position of the node
    \* one call of _merge_graph_and_progress
    progress_q,        \* the events in the queue, oldest first
    puts,              \* how many events have been put on the queue
    updates,           \* how many updates the graph iterator has returned
    t_graph,           \* the task of ait.__anext__(): pending, or its outcome
    t_prog,            \* the task of progress_q.get(): pending, or its event
    done_tasks,        \* the tasks asyncio.wait returned as done
    yielded,           \* what the generator has yielded: source and payload
    mpc,               \* the position of the generator
    \* the progress bus and the runs of stream_agent_response
    _emitters,         \* key -> the run whose _emit is registered, 0: none
    run_tab,           \* run -> its tab_id
    run_pc,            \* run -> "idle", "active" (registered, streaming), "ended"
    delivered,         \* the events emitted: the run of the node, the run
                       \* whose _emit was called (0: the event was dropped)
    \* one run of the node build_needs_table
    frozen,            \* ctx["selections_frozen"]
    needs_stream,      \* what stream_needs_for_snapshot does, step by step
    needs_pos,         \* how many of these steps are done
    needs_log,         \* the events given to the bus, the evaluation tasks
                       \* created and the calls made, in the order they happen
    npc                \* the position of the node

pipeline == <<leaves, batch_size, pc, stopped, batches, cur, done,
              batch_in_tokens, batch_out_tokens, total_in_tokens,
              total_out_tokens, task, completed, events, upstream, jitters,
              inject>>

selection == <<graph_traces, selected_trace_ids, limit, picked, spc>>

graphcall == <<G, fn, bottom_uuid, gpc, cur_uuid, visited, path, trace,
               intents_by_node>>

loader == <<manifest, nodes_files, edges_files, index_path, disk, self_G,
            load_result, integrity_result, lpc>>

outliner == <<ops_G, outline, prior, section_traces, opc, results>>

clustering == <<need_items, k_arg, cpc, k_auto, labels, cluster_result>>

relay == <<produced, relayed, recent, rpc>>

merger == <<progress_q, puts, updates, t_graph, t_prog, done_tasks, yielded, mpc>>

registry == <<_emitters, run_tab, run_pc, delivered>>

needsrun == <<frozen, needs_stream, needs_pos, needs_log, npc>>

agentnodes == <<clustering, relay, merger, registry, needsrun>>

core == <<pipeline, selection, graphcall, loader, outliner>>

\* what a call of cluster_needs_pipeline leaves alone, and what the relay
\* node leaves alone
besides_clustering == <<core, relay, merger, registry, needsrun>>

besides_relay == <<core, clustering, merger, registry, needsrun>>

besides_merger == <<core, clustering, relay, registry, needsrun>>

besides_registry == <<core, clustering, relay, merger, needsrun>>

besides_needsrun == <<core, clustering, relay, merger, registry>>

aux == <<selection, graphcall, loader, outliner, agentnodes>>

vars == <<pipeline, aux>>

\* "None" of an Optional argument, and a given value
None == <<>>

Some(x) == <<x>>

\* "cur = None": no node
NoNode == 0

EmptyGraph == [ntype |-> <<>>, edges |-> <<>>]

\* no selection call is made in this run
SelectionIdle ==
    /\ graph_traces = <<>>
    /\ selected_trace_ids = None
    /\ limit = None
    /\ picked = <<>>
    /\ spc = "idle"

\* no GraphOps call is made in this run
\* cluster_needs_pipeline is not called
ClusteringIdle ==
    /\ need_items = <<>>
    /\ k_arg = <<>>
    /\ cpc = "idle"
    /\ k_auto = 0
    /\ labels = <<>>
    /\ cluster_result = <<>>

\* the node find_relevant_sections_llm does not run
RelayIdle ==
    /\ produced = <<>>
    /\ relayed = <<>>
    /\ recent = FALSE
    /\ rpc = "idle"

\* no stream is merged
MergerIdle ==
    /\ progress_q = <<>>
    /\ puts = 0
    /\ updates = 0
    /\ t_graph = "none"
    /\ t_prog = "none"
    /\ done_tasks = {}
    /\ yielded = <<>>
    /\ mpc = "idle"

\* no run is streamed
RegistryIdle ==
    /\ _emitters = <<>>
    /\ run_tab = <<>>
    /\ run_pc = <<>>
    /\ delivered = <<>>

\* the node build_needs_table does not run
NeedsIdle ==
    /\ frozen = FALSE
    /\ needs_stream = <<>>
    /\ needs_pos = 0
    /\ needs_log = <<>>
    /\ npc = "idle"

NodesIdle ==
    ClusteringIdle /\ RelayIdle /\ MergerIdle /\ RegistryIdle /\ NeedsIdle

GraphIdle ==
    /\ G = EmptyGraph
    /\ fn = "-"
    /\ bottom_uuid = NoNode
    /\ gpc = "idle"
    /\ cur_uuid = NoNode
    /\ visited = {}
    /\ path = <<>>
    /\ trace = <<>>
    /\ intents_by_node = <<>>

\* no pipeline runs
PipelineIdle ==
    /\ leaves = <<>>
    /\ batch_size = 1
    /\ pc = "idle"
    /\ stopped = FALSE
    /\ batches = <<>>
    /\ cur = 0
    /\ done = 0
    /\ batch_in_tokens = 0
    /\ batch_out_tokens = 0
    /\ total_in_tokens = 0
    /\ total_out_tokens = 0
    /\ task = <<>>
    /\ completed = <<>>
    /\ events = <<>>
    /\ upstream = {}
    /\ jitters = {}
    /\ inject = [scripted |-> FALSE, failures |-> 0]

\* an "integrity" payload: keys a branch of checksum_status leaves out are
\* None
Integrity(status, passed, declared, computed, checksum, content_rev) ==
    [status |-> status, checksum_passed |-> passed, declared |-> declared,
     computed |-> computed, checksum |-> checksum,
     content_rev |-> content_rev]

\* _base_payload(): the payload before load() has filled it in
_base_payload ==
    [graph_loaded |-> FALSE, checksum_passed |-> FALSE,
     integrity |-> Integrity("unchecked", FALSE, None, None, None, None),
     nodes |-> 0, edges |-> 0, errors |-> <<>>]

\* manifest.json without an "integrity" entry
NoIntegrity == [integrity |-> None]

\* no ManifestGraph object is used in this run
LoaderIdle ==
    /\ manifest = NoIntegrity
    /\ nodes_files = <<>>
    /\ edges_files = <<>>
    /\ index_path = None
    /\ disk = <<>>
    /\ self_G = None
    /\ load_result = _base_payload
    /\ integrity_result = _base_payload.integrity
    /\ lpc = "idle"

\* no GraphOps builder is called in this run
OutlineIdle ==
    /\ ops_G = [ntype |-> <<>>, data |-> <<>>, edges |-> <<>>]
    /\ outline = [root |-> <<>>, uuid_to_path |-> <<>>,
                  bottom_uuid_to_path |-> <<>>, memo_min_key |-> <<>>]
    /\ prior = outline
    /\ section_traces = [built |-> FALSE, rows |-> <<>>, lookup |-> <<>>]
    /\ opc = "idle"
    /\ results = <<>>

\* may call number "calls" of an item return / fail under the capability
MayReturn(calls) == inject.scripted => calls > inject.failures

MayFail(calls) == inject.scripted => calls <= inject.failures

Min(a, b) == IF a < b THEN a ELSE b

Range(s) == {s[k] : k \in 1..Len(s)}

\* ------------------------------------------------------------------------
\* chunked(items, size): [items[i:i+size] for i in range(0, len(items), size)]
\* ------------------------------------------------------------------------
\* a slice one element too long: items[i:i+size+1]
Slice_OneTooMany(items, lo, hi) == SubSeq(items, lo + 1, Min(hi + 1, Len(items)))

Slice(items, lo, hi) == SubSeq(items, lo + 1, Min(hi, Len(items)))

RangeStep(n, step) == {i \in 0..(n - 1) : i % step = 0}

chunked(items, size) ==
    LET starts == RangeStep(Len(items), size)
    IN  [k \in 1..Cardinality(starts) |->
            Slice(items, (k - 1) * size, (k - 1) * size + size)]

\* ------------------------------------------------------------------------
\* _call_with_retry
\* ------------------------------------------------------------------------
\* "retryable = code in (429, 500, 502, 503, 504)" for an APIStatusError;
\* the "except Exception" branch has no such test.
IsRetryable(f) == IF f.cls = "APIStatusError" THEN f.code \in RetryableCodes ELSE TRUE

\* one retry too few: "attempt < max_retries - 2"
HasAttemptLeft_OneLess(attempt) == attempt < max_retries - 2

\* "attempt < max_retries - 1"
HasAttemptLeft(attempt) == attempt < max_retries - 1

\* "for attempt in range(max_retries)": is there a next iteration
LoopContinues(attempt) == attempt + 1 < max_retries

\* doubling without the cap
NextDelay_NoCap(delay) == delay * 2

\* "delay = min(delay * 2, 6)"
NextDelay(delay) == Min(delay * 2, DelayCap)

\* "delay + random.uniform(0, 0.4)"
SleepTime(delay, jitter) == delay + jitter

\* The unified error envelope and the envelope of a successful call, after
\* _enrich_usage_with_costs: response error, input/output/total tokens.
Envelope(err, tin, tout) == [err |-> err, tin |-> tin, tout |-> tout, ttot |-> tin + tout]

FailedEnvelope == Envelope("agent_call_failed", 0, 0)

MissingEnvelope == Envelope("missing bottom_uuid", 0, 0)

NoResult == Envelope("-", 0, 0)

\* ------------------------------------------------------------------------
\* Tasks
\* ------------------------------------------------------------------------
NoTask == [st |-> "none", attempt |-> 0, calls |-> 0, delay |-> 0,
           wait |-> 0, last |-> NoOutcome, res |-> NoResult]

N == Len(leaves)

Ids == 1..N

Resolved(i) == task[i].st \in {"resolved", "raised"}

InFlight(i) == task[i].st \in {"created", "calling", "sleeping"}

\* ------------------------------------------------------------------------
\* Events
\* ------------------------------------------------------------------------
Evt(type, index, size, dn, leaf, res, tin, tout) ==
    [type |-> type, index |-> index, size |-> size, done |-> dn,
     leaf |-> leaf, res |-> res, tin |-> tin, tout |-> tout]

Emit(e) == events' = Append(events, e)

RunStartEvt == Evt("run_start", Len(batches'), N, 0, 0, NoResult, 0, 0)

BatchHeaderEvt(i) == Evt("batch_header", i, Len(batches[i]), 0, 0, NoResult, 0, 0)

BatchStartEvt(i) == Evt("batch_start", 0, Len(batches[i]), 0, 0, NoResult, 0, 0)

ItemDoneEvt(dn, total, leaf, res) == Evt("item_done", 0, total, dn, leaf, res, 0, 0)

BatchProgressEvt(dn, total, tin, tout) == Evt("batch_progress", 0, total, dn, 0, NoResult, tin, tout)

BatchEndEvt(total, tin, tout) == Evt("batch_end", 0, total, 0, 0, NoResult, tin, tout)

RunEndEvt(tin, tout) == Evt("run_end", Len(batches), N, 0, 0, NoResult, tin, tout)

\* ------------------------------------------------------------------------
\* Initial state: a call stream_all_traces(G, ops, batch_size=...) that has
\* not been iterated yet.
\* ------------------------------------------------------------------------
Init ==
    /\ leaves \in UNION {[1..n -> LeafKinds] : n \in 0..MaxLeaves}
    /\ batch_size \in 1..MaxBatch
    /\ pc = "init"
    /\ stopped = FALSE
    /\ batches = <<>>
    /\ cur = 0
    /\ done = 0
    /\ batch_in_tokens = 0
    /\ batch_out_tokens = 0
    /\ total_in_tokens = 0
    /\ total_out_tokens = 0
    /\ task = [i \in 1..Len(leaves) |-> NoTask]
    /\ completed = <<>>
    /\ events = <<>>
    /\ upstream = PipelineFailures
    /\ jitters = PipelineJitters
    /\ inject = Unscripted
    /\ SelectionIdle /\ GraphIdle /\ LoaderIdle /\ OutlineIdle /\ NodesIdle

\* A run in batches of two, with every failure and every jitter value.
InitRetry ==
    /\ leaves \in UNION {[1..n -> LeafKinds] : n \in 0..MaxRetryLeaves}
    /\ batch_size = 2
    /\ pc = "init"
    /\ stopped = FALSE
    /\ batches = <<>>
    /\ cur = 0
    /\ done = 0
    /\ batch_in_tokens = 0
    /\ batch_out_tokens = 0
    /\ total_in_tokens = 0
    /\ total_out_tokens = 0
    /\ task = [i \in 1..Len(leaves) |-> NoTask]
    /\ completed = <<>>
    /\ events = <<>>
    /\ upstream = Failures
    /\ jitters = Jitters
    /\ inject = Unscripted
    /\ SelectionIdle /\ GraphIdle /\ LoaderIdle /\ OutlineIdle /\ NodesIdle

\* Runs checked with a fair event loop: batches of one or two leaves.
InitLive ==
    /\ leaves \in UNION {[1..n -> LeafKinds] : n \in 0..MaxLiveLeaves}
    /\ batch_size \in {1, 2}
    /\ pc = "init"
    /\ stopped = FALSE
    /\ batches = <<>>
    /\ cur = 0
    /\ done = 0
    /\ batch_in_tokens = 0
    /\ batch_out_tokens = 0
    /\ total_in_tokens = 0
    /\ total_out_tokens = 0
    /\ task = [i \in 1..Len(leaves) |-> NoTask]
    /\ completed = <<>>
    /\ events = <<>>
    /\ upstream = PipelineFailures
    /\ jitters = PipelineJitters
    /\ inject = Unscripted
    /\ SelectionIdle /\ GraphIdle /\ LoaderIdle /\ OutlineIdle /\ NodesIdle

\* Runs whose leaves include traversal misses of both kinds.
InitMiss ==
    /\ leaves \in UNION {[1..n -> MissKinds] : n \in 0..MaxMissLeaves}
    /\ batch_size = 2
    /\ pc = "init"
    /\ stopped = FALSE
    /\ batches = <<>>
    /\ cur = 0
    /\ done = 0
    /\ batch_in_tokens = 0
    /\ batch_out_tokens = 0
    /\ total_in_tokens = 0
    /\ total_out_tokens = 0
    /\ task = [i \in 1..Len(leaves) |-> NoTask]
    /\ completed = <<>>
    /\ events = <<>>
    /\ upstream = PipelineFailures
    /\ jitters = PipelineJitters
    /\ inject = Unscripted
    /\ SelectionIdle /\ GraphIdle /\ LoaderIdle /\ OutlineIdle /\ NodesIdle

\* The run with 7 evaluable leaves, batch size 3 and a capability that fails
\* the first 2 calls of every item with status 429 and then succeeds, next
\* to short runs with an unscripted capability.
InitScenario ==
    /\ \/ /\ leaves = [i \in 1..7 |-> "ok"]
          /\ batch_size = 3
          /\ upstream = {StatusError(429)}
          /\ inject = FailsFirst(2)
       \/ /\ leaves \in UNION {[1..n -> LeafKinds] : n \in 0..MaxRetryLeaves}
          /\ batch_size = 2
          /\ upstream = PipelineFailures
          /\ inject = Unscripted
    /\ pc = "init"
    /\ stopped = FALSE
    /\ batches = <<>>
    /\ cur = 0
    /\ done = 0
    /\ batch_in_tokens = 0
    /\ batch_out_tokens = 0
    /\ total_in_tokens = 0
    /\ total_out_tokens = 0
    /\ task = [i \in 1..Len(leaves) |-> NoTask]
    /\ completed = <<>>
    /\ events = <<>>
    /\ jitters = PipelineJitters
    /\ SelectionIdle /\ GraphIdle /\ LoaderIdle /\ OutlineIdle /\ NodesIdle

\* ------------------------------------------------------------------------
\* stream_all_traces and _stream_batch_parallel: one action per stretch of
\* generator code between two suspension points (a yield or "await fut").
\* ------------------------------------------------------------------------
all_traces == [i \in 1..N |-> i]

total == Len(batches[cur])

\* first iteration: everything up to "yield run_start"
RunStart ==
    /\ pc = "init" /\ ~stopped
    /\ batches' = chunked(all_traces, batch_size)
    /\ Emit(RunStartEvt)
    /\ pc' = "y_run_start"
    /\ UNCHANGED <<aux, inject, upstream, jitters, leaves, batch_size, stopped, cur, done, batch_in_tokens,
                   batch_out_tokens, total_in_tokens, total_out_tokens,
                   task, completed>>

\* "for i, batch in enumerate(batches, start=1)": is there a next batch
HasNextBatch(i) == i < Len(batches)

\* loop head with a next batch: "yield batch_header"
BatchHeader ==
    /\ pc \in {"y_run_start", "y_batch_end"} /\ ~stopped
    /\ HasNextBatch(cur)
    /\ cur' = cur + 1
    /\ Emit(BatchHeaderEvt(cur + 1))
    /\ pc' = "y_batch_header"
    /\ UNCHANGED <<aux, inject, upstream, jitters, leaves, batch_size, stopped, batches, done,
                   batch_in_tokens, batch_out_tokens, total_in_tokens,
                   total_out_tokens, task, completed>>

\* loop exhausted: "yield run_end" with the cumulative totals
RunEnd ==
    /\ pc \in {"y_run_start", "y_batch_end"} /\ ~stopped
    /\ ~HasNextBatch(cur)
    /\ Emit(RunEndEvt(total_in_tokens, total_out_tokens))
    /\ pc' = "y_run_end"
    /\ UNCHANGED <<aux, inject, upstream, jitters, leaves, batch_size, stopped, batches, cur, done,
                   batch_in_tokens, batch_out_tokens, total_in_tokens,
                   total_out_tokens, task, completed>>

\* the generator returns after run_end
Finish ==
    /\ pc = "y_run_end" /\ ~stopped
    /\ pc' = "done"
    /\ UNCHANGED <<aux, inject, upstream, jitters, leaves, batch_size, stopped, batches, cur, done,
                   batch_in_tokens, batch_out_tokens, total_in_tokens,
                   total_out_tokens, task, completed, events>>

\* _stream_batch_parallel starts: counters reset, "yield batch_start"
BatchStart ==
    /\ pc = "y_batch_header" /\ ~stopped
    /\ done' = 0
    /\ batch_in_tokens' = 0
    /\ batch_out_tokens' = 0
    /\ Emit(BatchStartEvt(cur))
    /\ pc' = "y_batch_start"
    /\ UNCHANGED <<aux, inject, upstream, jitters, leaves, batch_size, stopped, batches, cur,
                   total_in_tokens, total_out_tokens, task, completed>>

\* "tasks = [asyncio.create_task(one(it)) for it in batch_items]", then the
\* loop over as_completed suspends in "await fut"
CreatedTask == [NoTask EXCEPT !.st = "created"]

CreateTasks ==
    /\ pc = "y_batch_start" /\ ~stopped
    /\ task' = [i \in Ids |-> IF i \in Range(batches[cur]) THEN CreatedTask ELSE task[i]]
    /\ completed' = <<>>
    /\ pc' = "await"
    /\ UNCHANGED <<aux, inject, upstream, jitters, leaves, batch_size, stopped, batches, cur, done,
                   batch_in_tokens, batch_out_tokens, total_in_tokens,
                   total_out_tokens, events>>

\* Once its result has been awaited, nothing of a task is left but the
\* outcome it holds.
Awaited(t) == [NoTask EXCEPT !.st = t.st, !.res = t.res]

\* the tasks are awaited in submission order ("for t in tasks: await t")
AwaitResult_SubmissionOrder ==
    /\ pc = "await" /\ ~stopped
    /\ LET i == batches[cur][done + 1]
           r == task[i].res
       IN  /\ task[i].st = "resolved"
           /\ batch_in_tokens' = batch_in_tokens + r.tin
           /\ batch_out_tokens' = batch_out_tokens + r.tout
           /\ done' = done + 1
           /\ Emit(ItemDoneEvt(done + 1, total, i, r))
           /\ task' = [task EXCEPT ![i] = Awaited(@)]
           /\ completed' = SelectSeq(completed, LAMBDA k : k # i)
    /\ pc' = "y_item_done"
    /\ UNCHANGED <<aux, inject, upstream, jitters, leaves, batch_size, stopped, batches, cur,
                   total_in_tokens, total_out_tokens>>

\* "item_obj = await fut" returns the result of the next resolved task:
\* counters are updated and "yield item_done"
AwaitResult ==
    /\ pc = "await" /\ ~stopped
    /\ completed # <<>>
    /\ task[Head(completed)].st = "resolved"
    /\ LET i == Head(completed)
           r == task[i].res
       IN  /\ batch_in_tokens' = batch_in_tokens + r.tin
           /\ batch_out_tokens' = batch_out_tokens + r.tout
           /\ done' = done + 1
           /\ Emit(ItemDoneEvt(done + 1, total, i, r))
    /\ task' = [task EXCEPT ![Head(completed)] = Awaited(@)]
    /\ completed' = Tail(completed)
    /\ pc' = "y_item_done"
    /\ UNCHANGED <<aux, inject, upstream, jitters, leaves, batch_size, stopped, batches, cur,
                   total_in_tokens, total_out_tokens>>

\* "item_obj = await fut" re-raises the exception of a task that raised:
\* nothing catches it in _stream_batch_parallel or stream_all_traces
AwaitRaises ==
    /\ pc = "await" /\ ~stopped
    /\ completed # <<>>
    /\ task[Head(completed)].st = "raised"
    /\ task' = [task EXCEPT ![Head(completed)] = Awaited(@)]
    /\ completed' = Tail(completed)
    /\ pc' = "raised"
    /\ UNCHANGED <<aux, inject, upstream, jitters, leaves, batch_size, stopped, batches, cur, done,
                   batch_in_tokens, batch_out_tokens, total_in_tokens,
                   total_out_tokens, events>>

LastEvent == events[Len(events)]

\* the run totals add the batch totals so far instead of the item's usage
BatchProgress_AddsBatchTotals ==
    /\ pc = "y_item_done" /\ ~stopped
    /\ total_in_tokens' = total_in_tokens + batch_in_tokens
    /\ total_out_tokens' = total_out_tokens + batch_out_tokens
    /\ Emit(BatchProgressEvt(done, total, batch_in_tokens, batch_out_tokens))
    /\ pc' = "y_batch_progress"
    /\ UNCHANGED <<aux, inject, upstream, jitters, leaves, batch_size, stopped, batches, cur, done,
                   batch_in_tokens, batch_out_tokens, task, completed>>

\* after "yield evt" of an item_done, stream_all_traces adds the item's
\* usage to the run totals; _stream_batch_parallel then yields batch_progress
BatchProgress ==
    /\ pc = "y_item_done" /\ ~stopped
    /\ total_in_tokens' = total_in_tokens + LastEvent.res.tin
    /\ total_out_tokens' = total_out_tokens + LastEvent.res.tout
    /\ Emit(BatchProgressEvt(done, total, batch_in_tokens, batch_out_tokens))
    /\ pc' = "y_batch_progress"
    /\ UNCHANGED <<aux, inject, upstream, jitters, leaves, batch_size, stopped, batches, cur, done,
                   batch_in_tokens, batch_out_tokens, task, completed>>

\* the loop over the futures ends one future early
MoreFutures_OffByOne(dn, tot) == dn + 1 < tot

\* "for fut in asyncio.as_completed(tasks)": one future per task
MoreFutures(dn, tot) == dn < tot

\* next iteration of the as_completed loop: suspend in "await fut"
AwaitNext ==
    /\ pc = "y_batch_progress" /\ ~stopped
    /\ MoreFutures(done, total)
    /\ pc' = "await"
    /\ UNCHANGED <<aux, inject, upstream, jitters, leaves, batch_size, stopped, batches, cur, done,
                   batch_in_tokens, batch_out_tokens, total_in_tokens,
                   total_out_tokens, task, completed, events>>

\* as_completed exhausted: "yield batch_end"
BatchEnd ==
    /\ pc = "y_batch_progress" /\ ~stopped
    /\ ~MoreFutures(done, total)
    /\ Emit(BatchEndEvt(total, batch_in_tokens, batch_out_tokens))
    /\ pc' = "y_batch_end"
    /\ UNCHANGED <<aux, inject, upstream, jitters, leaves, batch_size, stopped, batches, cur, done,
                   batch_in_tokens, batch_out_tokens, total_in_tokens,
                   total_out_tokens, task, completed>>

\* a generator that cancels the tasks it started when it is abandoned
ConsumerStop_CancelsTasks ==
    /\ ~stopped
    /\ pc \notin {"init", "done", "raised"}
    /\ stopped' = TRUE
    /\ task' = [i \in Ids |-> IF task[i].st \in {"created", "calling", "sleeping"}
                               THEN [task[i] EXCEPT !.st = "cancelled"]
                               ELSE task[i]]
    /\ UNCHANGED <<aux, inject, upstream, jitters, leaves, batch_size, pc, batches, cur, done,
                   batch_in_tokens, batch_out_tokens, total_in_tokens,
                   total_out_tokens, completed, events>>

\* the consumer stops iterating (breaks out of its "async for", or is
\* cancelled while waiting for the next event); tasks are not cancelled
ConsumerStop ==
    /\ ~stopped
    /\ pc \notin {"init", "done", "raised"}
    /\ stopped' = TRUE
    /\ UNCHANGED <<aux, inject, upstream, jitters, leaves, batch_size, pc, batches, cur, done,
                   batch_in_tokens, batch_out_tokens, total_in_tokens,
                   total_out_tokens, task, completed, events>>

\* ------------------------------------------------------------------------
\* The task of one leaf: one(item) and _call_with_retry
\* ------------------------------------------------------------------------
TaskVarsOnly == <<aux, inject, upstream, jitters, leaves, batch_size, pc, stopped, batches, cur, done,
                  batch_in_tokens, batch_out_tokens, total_in_tokens,
                  total_out_tokens, events>>

\* a task adds its own input tokens to the batch total when it resolves
Resolve_AddsOwnUsage(i, t) ==
    /\ task' = [task EXCEPT ![i] = t]
    /\ completed' = Append(completed, i)
    /\ batch_in_tokens' = batch_in_tokens + t.res.tin
    /\ UNCHANGED <<aux, inject, upstream, jitters, leaves, batch_size, pc, stopped, batches,
                   cur, done, batch_out_tokens, total_in_tokens,
                   total_out_tokens, events>>

Resolve(i, t) ==
    /\ task' = [task EXCEPT ![i] = t]
    /\ completed' = Append(completed, i)
    /\ UNCHANGED TaskVarsOnly

Step(i, t) ==
    /\ task' = [task EXCEPT ![i] = t]
    /\ UNCHANGED <<completed>>
    /\ UNCHANGED TaskVarsOnly

\* "if not item.get('bottom_uuid')": minimal item, no capability call
TaskMissing(i) ==
    /\ task[i].st = "created"
    /\ leaves[i] = "missing"
    /\ Resolve(i, [task[i] EXCEPT !.st = "resolved", !.res = MissingEnvelope])

\* building the blocks raises; one() has no handler, the task ends with
\* the exception
TaskRaises(i) ==
    /\ task[i].st = "created"
    /\ leaves[i] = "malformed"
    /\ Resolve(i, [task[i] EXCEPT !.st = "raised"])

\* blocks built; _call_with_retry starts: delay = 0.6, attempt 0, first
\* "await agent.run"
TaskCall(i) ==
    /\ task[i].st = "created"
    /\ leaves[i] \in {"ok", "absent"}
    /\ Step(i, [task[i] EXCEPT !.st = "calling", !.attempt = 0, !.calls = 1,
                               !.delay = DelayInit])

\* agent.run returns: the envelope is returned, usage enriched
AgentOk(i, u) ==
    /\ task[i].st = "calling"
    /\ MayReturn(task[i].calls)
    /\ Resolve(i, [task[i] EXCEPT !.st = "resolved", !.last = Returned,
                                  !.res = Envelope("none", u[1], u[2])])

\* agent.run raises and the attempt is retried: sleep delay + jitter
AgentFailRetry(i, f, j) ==
    /\ task[i].st = "calling"
    /\ MayFail(task[i].calls)
    /\ IsRetryable(f) /\ HasAttemptLeft(task[i].attempt)
    /\ Step(i, [task[i] EXCEPT !.st = "sleeping", !.last = f,
                               !.wait = SleepTime(task[i].delay, j)])

\* agent.run raises and the loop is left with "break": error envelope
AgentFailBreak(i, f) ==
    /\ task[i].st = "calling"
    /\ MayFail(task[i].calls)
    /\ ~(IsRetryable(f) /\ HasAttemptLeft(task[i].attempt))
    /\ Resolve(i, [task[i] EXCEPT !.st = "resolved", !.last = f,
                                  !.res = FailedEnvelope])

\* the sleep ends: "delay = min(delay * 2, 6); continue"; the next iteration
\* of "for attempt in range(max_retries)" calls agent.run again, and an
\* exhausted loop falls through to the error envelope
WakeUp(i) ==
    /\ task[i].st = "sleeping"
    /\ IF LoopContinues(task[i].attempt)
       THEN Step(i, [task[i] EXCEPT !.st = "calling", !.wait = 0,
                                    !.delay = NextDelay(task[i].delay),
                                    !.attempt = task[i].attempt + 1,
                                    !.calls = task[i].calls + 1])
       ELSE Resolve(i, [task[i] EXCEPT !.st = "resolved", !.wait = 0,
                                       !.delay = NextDelay(task[i].delay),
                                       !.res = FailedEnvelope])

Next ==
    \/ RunStart
    \/ BatchHeader
    \/ BatchStart
    \/ CreateTasks
    \/ AwaitResult
    \/ AwaitRaises
    \/ BatchProgress
    \/ AwaitNext
    \/ BatchEnd
    \/ RunEnd
    \/ Finish
    \/ ConsumerStop
    \/ \E i \in Ids : TaskMissing(i)
    \/ \E i \in Ids : TaskRaises(i)
    \/ \E i \in Ids : TaskCall(i)
    \/ \E i \in Ids, u \in Usages : AgentOk(i, u)
    \/ \E i \in Ids, f \in upstream, j \in jitters : AgentFailRetry(i, f, j)
    \/ \E i \in Ids, f \in upstream : AgentFailBreak(i, f)
    \/ \E i \in Ids : WakeUp(i)

Spec == Init /\ [][Next]_vars

SpecRetry == InitRetry /\ [][Next]_vars

SpecMiss == InitMiss /\ [][Next]_vars

SpecScenario == InitScenario /\ [][Next]_vars

\* The event loop keeps running the tasks it holds: a created task is
\* started, a capability call returns or raises, a sleep ends.
TaskProgress ==
    \/ \E i \in Ids : TaskMissing(i)
    \/ \E i \in Ids : TaskRaises(i)
    \/ \E i \in Ids : TaskCall(i)
    \/ \E i \in Ids, u \in Usages : AgentOk(i, u)
    \/ \E i \in Ids, f \in upstream, j \in jitters : AgentFailRetry(i, f, j)
    \/ \E i \in Ids, f \in upstream : AgentFailBreak(i, f)
    \/ \E i \in Ids : WakeUp(i)

SpecLive == InitLive /\ [][Next]_vars /\ WF_vars(TaskProgress)

\* ------------------------------------------------------------------------
\* stream_all_traces, the selection of the leaves: the optional caller
\* subset and the optional limit
\* ------------------------------------------------------------------------
SeqsUpTo(S, n) == UNION {[1..k -> S] : k \in 0..n}

InjectiveSeqs(S, n) ==
    {q \in SeqsUpTo(S, n) : \A a, b \in DOMAIN q : a # b => q[a] # q[b]}

\* A graph with up to MaxTraces Trace nodes in any order; no subset, or a
\* list that may be empty, hold duplicates and ids of no Trace; no limit, or
\* an int that may be 0, negative or larger than the list.
InitSelect ==
    /\ graph_traces \in InjectiveSeqs(1..MaxTraces, MaxTraces)
    /\ selected_trace_ids \in
           {None} \cup {Some(x) : x \in SeqsUpTo(1..(MaxTraces + 1), MaxSelected)}
    /\ limit \in {None} \cup {Some(n) : n \in (-1)..(MaxTraces + 1)}
    /\ picked = <<>>
    /\ spc = "call"
    /\ PipelineIdle /\ GraphIdle /\ LoaderIdle /\ OutlineIdle /\ NodesIdle

\* "selected_ids = ctx.get('selected_ids', []) or []" of the node
\* find_relevant_sections_llm: the stored selection as it is passed on
selected_ids(stored) == IF stored = None \/ stored[1] = <<>> THEN <<>> ELSE stored[1]

\* "if selected_trace_ids is not None:"
ListGiven_NotNone(opt) == opt # None

\* "if selected_trace_ids:" a list that is not None and not empty
ListGiven(opt) == opt # None /\ opt[1] # <<>>

\* "if limit:" an int that is not None and not 0
IntGiven(opt) == opt # None /\ opt[1] # 0

\* the subset filters in its own order: [id for id in selected if id in all]
FilterSelected_SubsetOrder(all, selected) ==
    IF ListGiven(selected)
    THEN SelectSeq(selected[1], LAMBDA id : id \in Range(all))
    ELSE all

\* "sel = set(selected_trace_ids);
\*  all_traces = [t for t in all_traces if t.get('trace_uuid') in sel]"
FilterSelected(all, selected) ==
    IF ListGiven(selected)
    THEN SelectSeq(all, LAMBDA t : t \in Range(selected[1]))
    ELSE all

\* items[:n] of Python, n of either sign
SliceTo(items, n) ==
    IF n >= 0
    THEN SubSeq(items, 1, Min(n, Len(items)))
    ELSE SubSeq(items, 1, Len(items) + n)

\* "if limit: all_traces = all_traces[:limit]"
ApplyLimit(all, lim) == IF IntGiven(lim) THEN SliceTo(all, lim[1]) ELSE all

SelectTraces ==
    /\ spc = "call"
    /\ picked' = ApplyLimit(FilterSelected(graph_traces, selected_trace_ids), limit)
    /\ spc' = "returned"
    /\ UNCHANGED <<graph_traces, selected_trace_ids, limit>>
    /\ UNCHANGED <<pipeline, graphcall, loader, outliner, agentnodes>>

NextSelect == SelectTraces

SpecSelect == InitSelect /\ [][NextSelect]_vars

\* ------------------------------------------------------------------------
\* GraphOps on a MultiDiGraph: node ids are 1..Len(ntype), every edge is a
\* record (src, tgt, relation), "edges" lists them in the order add_edge
\* was called.
\* ------------------------------------------------------------------------
Edge(u, v, r) == [src |-> u, tgt |-> v, relation |-> r]

Nodes(g) == DOMAIN g.ntype

\* an id that names no node of g
Absent(g) == Len(g.ntype) + 1

\* Graphs with CONTAINS edges only, between any two nodes: chains, forests,
\* several parents, self-loops and cycles. Node 1 is a Document, node 2 a
\* Section or a second Document, the others are Paragraphs.
TypesOf(n) == {t \in [1..n -> {"Document", "Section", "Paragraph"}] :
                  \A i \in 1..n :
                      t[i] \in (CASE i = 1 -> {"Document"}
                                  [] i = 2 -> {"Document", "Section"}
                                  [] OTHER -> {"Paragraph"})}

ContainsEdges(n) == {Edge(u, v, "CONTAINS") : u, v \in 1..n}

\* Graphs of a Section (1) containing a Paragraph (2), a Trace (3) and two
\* Intents (4, 5), with HAS_INTENT and HAS_ANCHOR edges that also reach
\* nodes of the wrong type.
IntentNodeTypes == <<"Section", "Paragraph", "Trace", "Intent", "Intent">>

IntentEdgeCandidates ==
    {Edge(1, 2, "CONTAINS")}
    \cup {Edge(u, v, "HAS_INTENT") : u \in {1, 2, 3}, v \in {1, 4, 5}}
    \cup {Edge(u, v, "HAS_ANCHOR") : u \in {1, 3}, v \in {1, 2}}

\* a call that has not started
CallPending ==
    /\ gpc = "call"
    /\ cur_uuid = NoNode
    /\ visited = {}
    /\ path = <<>>
    /\ trace = <<>>
    /\ intents_by_node = <<>>

\* an upward walk, by either function, from a node of a graph with
\* CONTAINS edges or from an id that is not in the graph
InitWalk ==
    /\ \E n \in 1..MaxNodes :
       \E t \in TypesOf(n) :
       \E e \in SeqsUpTo(ContainsEdges(n), MaxEdges) :
           G = [ntype |-> t, edges |-> e]
    /\ fn \in {"_build_trace", "_build_trace_from_node"}
    /\ bottom_uuid \in Nodes(G) \cup {Absent(G)}
    /\ CallPending
    /\ PipelineIdle /\ SelectionIdle /\ LoaderIdle /\ OutlineIdle /\ NodesIdle

\* build_records_for_bottom on a graph with intents
InitIntents ==
    /\ \E e \in SeqsUpTo(IntentEdgeCandidates, MaxIntentEdges) :
           G = [ntype |-> IntentNodeTypes, edges |-> e]
    /\ fn = "_build_trace"
    /\ bottom_uuid \in {1, 2, Absent(G)}
    /\ CallPending
    /\ PipelineIdle /\ SelectionIdle /\ LoaderIdle /\ OutlineIdle /\ NodesIdle

InitGraph == InitWalk \/ InitIntents

\* G.in_edges(v) and G.out_edges(u) iterate the adjacency of the node:
\* neighbours in the order their first edge was added, and for one
\* neighbour the parallel edges in the order they were added.
FirstOfPair(g, k) ==
    CHOOSE j \in 1..k :
        /\ g.edges[j].src = g.edges[k].src /\ g.edges[j].tgt = g.edges[k].tgt
        /\ \A i \in 1..(j - 1) :
               ~(g.edges[i].src = g.edges[k].src /\ g.edges[i].tgt = g.edges[k].tgt)

EdgeRank(g, k) == FirstOfPair(g, k) * (Len(g.edges) + 1) + k

RECURSIVE ByRank(_, _)
ByRank(g, S) ==
    IF S = {} THEN <<>>
    ELSE LET k == CHOOSE k \in S : \A j \in S : EdgeRank(g, k) <= EdgeRank(g, j)
         IN  <<g.edges[k]>> \o ByRank(g, S \ {k})

in_edges(g, v) == ByRank(g, {k \in DOMAIN g.edges : g.edges[k].tgt = v})

out_edges(g, u) == ByRank(g, {k \in DOMAIN g.edges : g.edges[k].src = u})

\* the keys a trace record gets next to uuid and ntype
RecordKeys(f, ntype) ==
    CASE ntype = "Document" -> {"label", "title", "issuer", "amendment", "effective_date"}
      [] ntype = "Subpart" -> {"label", "code", "title"}
      [] ntype = "Heading" -> {"label"}
      [] ntype = "Section" -> {"label", "number", "title", "section_type"}
      [] ntype = "Guidance" /\ f = "_build_trace" ->
             {"label", "number", "title", "guidance_type"}
      [] ntype = "Paragraph" /\ f = "_build_trace" ->
             {"paragraph_id", "text", "classification", "classification_reason"}
      [] OTHER -> {"label"}

Rec(f, g, id) ==
    [uuid |-> id, ntype |-> g.ntype[id], keys |-> RecordKeys(f, g.ntype[id])]

\* "parents = [u for (u, v, d) in G.in_edges(cur, data=True)
\*             if d.get('relation') == 'CONTAINS']"
Parents(g, v) ==
    LET es == SelectSeq(in_edges(g, v), LAMBDA e : e.relation = "CONTAINS")
    IN  [k \in DOMAIN es |-> es[k].src]

\* the walk never tests the nodes it has visited: "while cur:"
LoopGuard_NoVisited(c, vis) == c # NoNode

\* "while cur and cur not in visited"
LoopGuard(c, vis) == c # NoNode /\ c \notin vis

\* the path is returned as walked, leaf first
Reverse_Identity(q) == q

\* "list(reversed(path))"
Reverse(q) == [k \in DOMAIN q |-> q[Len(q) + 1 - k]]

\* "if bottom_uuid not in self.G: return []"
TraceAbsent ==
    /\ gpc = "call"
    /\ bottom_uuid \notin Nodes(G)
    /\ trace' = <<>>
    /\ gpc' = "returned"
    /\ UNCHANGED <<G, fn, bottom_uuid, cur_uuid, visited, path, intents_by_node>>
    /\ UNCHANGED <<pipeline, selection, loader, outliner, agentnodes>>

\* "path = []; cur = bottom_uuid; visited = set()"
TraceStart ==
    /\ gpc = "call"
    /\ bottom_uuid \in Nodes(G)
    /\ path' = <<>>
    /\ cur_uuid' = bottom_uuid
    /\ visited' = {}
    /\ gpc' = "loop"
    /\ UNCHANGED <<G, fn, bottom_uuid, trace, intents_by_node>>
    /\ UNCHANGED <<pipeline, selection, loader, outliner, agentnodes>>

\* one iteration of the while loop: record the node, move to parents[0].
\* The path is capped one record above the number of nodes.
TraceVisit ==
    /\ gpc = "loop"
    /\ LoopGuard(cur_uuid, visited)
    /\ Len(path) <= Len(G.ntype)
    /\ visited' = visited \cup {cur_uuid}
    /\ path' = Append(path, Rec(fn, G, cur_uuid))
    /\ cur_uuid' = IF Parents(G, cur_uuid) # <<>> THEN Parents(G, cur_uuid)[1] ELSE NoNode
    /\ UNCHANGED <<G, fn, bottom_uuid, gpc, trace, intents_by_node>>
    /\ UNCHANGED <<pipeline, selection, loader, outliner, agentnodes>>

\* the loop ends: "return list(reversed(path))"
TraceReturn ==
    /\ gpc = "loop"
    /\ ~LoopGuard(cur_uuid, visited)
    /\ trace' = Reverse(path)
    /\ gpc' = "returned"
    /\ UNCHANGED <<G, fn, bottom_uuid, cur_uuid, visited, path, intents_by_node>>
    /\ UNCHANGED <<pipeline, selection, loader, outliner, agentnodes>>

\* ------------------------------------------------------------------------
\* _collect_intents(trace, bottom_uuid): intents_by_node is kept as the list
\* of its buckets in insertion order, which is the list returned.
\* ------------------------------------------------------------------------
Bucket(uuid_node, ntype, intents) ==
    [uuid_node |-> uuid_node, ntype |-> ntype, intents |-> intents]

HasBucket(b, uuid_node) == \E k \in DOMAIN b : b[k].uuid_node = uuid_node

\* the bucket of the node is replaced by one holding the new intent only
add_Overwrites(b, uuid_node, ntype, intent) ==
    IF HasBucket(b, uuid_node)
    THEN [k \in DOMAIN b |->
             IF b[k].uuid_node = uuid_node
             THEN [b[k] EXCEPT !.intents = <<intent>>]
             ELSE b[k]]
    ELSE Append(b, Bucket(uuid_node, ntype, <<intent>>))

\* "bucket = intents_by_node.setdefault(uuid_node, {...});
\*  bucket['intents'].append({...})"
add(b, uuid_node, ntype, intent) ==
    IF HasBucket(b, uuid_node)
    THEN [k \in DOMAIN b |->
             IF b[k].uuid_node = uuid_node
             THEN [b[k] EXCEPT !.intents = Append(@, intent)]
             ELSE b[k]]
    ELSE Append(b, Bucket(uuid_node, ntype, <<intent>>))

\* targets of the HAS_INTENT edges out of u that are Intent nodes, in
\* out_edges order
IntentsOf(g, u) ==
    LET es == SelectSeq(out_edges(g, u),
                        LAMBDA e : e.relation = "HAS_INTENT" /\ g.ntype[e.tgt] = "Intent")
    IN  [k \in DOMAIN es |-> es[k].tgt]

\* a bucket is made for the node before its edges are looked at
RECURSIVE AddAll_BucketFirst(_, _, _, _)
AddAll_BucketFirst(b, uuid_node, ntype, ints) ==
    IF ints = <<>>
    THEN IF HasBucket(b, uuid_node) THEN b ELSE Append(b, Bucket(uuid_node, ntype, <<>>))
    ELSE AddAll_BucketFirst(add(b, uuid_node, ntype, Head(ints)), uuid_node, ntype, Tail(ints))

\* the inner "for _, tgt, d in out_edges(...)" loop: add every intent
RECURSIVE AddAll(_, _, _, _)
AddAll(b, uuid_node, ntype, ints) ==
    IF ints = <<>> THEN b
    ELSE AddAll(add(b, uuid_node, ntype, Head(ints)), uuid_node, ntype, Tail(ints))

\* 1) HAS_INTENT from any node in trace
RECURSIVE FromTrace(_, _, _)
FromTrace(g, b, tr) ==
    IF tr = <<>> THEN b
    ELSE FromTrace(g,
                   IF Head(tr).uuid \in Nodes(g)
                   THEN AddAll(b, Head(tr).uuid, Head(tr).ntype, IntentsOf(g, Head(tr).uuid))
                   ELSE b,
                   Tail(tr))

\* Trace nodes with a HAS_ANCHOR edge to the leaf, in in_edges order
AnchoringTraces(g, leaf) ==
    LET es == SelectSeq(in_edges(g, leaf),
                        LAMBDA e : e.relation = "HAS_ANCHOR" /\ g.ntype[e.src] = "Trace")
    IN  [k \in DOMAIN es |-> es[k].src]

\* 2) bottom paragraph -> Trace -> Intent, added under the leaf's key
RECURSIVE FromAnchors(_, _, _, _)
FromAnchors(g, b, leaf, trcs) ==
    IF trcs = <<>> THEN b
    ELSE FromAnchors(g, AddAll(b, leaf, "Paragraph", IntentsOf(g, Head(trcs))),
                     leaf, Tail(trcs))

_collect_intents(g, tr, leaf) ==
    FromAnchors(g, FromTrace(g, <<>>, tr), leaf, AnchoringTraces(g, leaf))

\* build_records_for_bottom: the intents of the trace just built
CollectIntents ==
    /\ gpc = "returned"
    /\ fn = "_build_trace"
    /\ intents_by_node' = _collect_intents(G, trace, bottom_uuid)
    /\ gpc' = "collected"
    /\ UNCHANGED <<G, fn, bottom_uuid, cur_uuid, visited, path, trace>>
    /\ UNCHANGED <<pipeline, selection, loader, outliner, agentnodes>>

NextGraph ==
    \/ TraceAbsent
    \/ TraceStart
    \/ TraceVisit
    \/ TraceReturn
    \/ CollectIntents

SpecGraph == InitGraph /\ [][NextGraph]_vars

\* the call is not abandoned: every step that can be taken is taken
SpecGraphLive == InitWalk /\ [][NextGraph]_vars /\ WF_vars(NextGraph)

\* ========================================================================
\* ManifestGraph: bundle integrity and graph load (utils.py)
\* ========================================================================
\* A file is the sequence of its lines and a line is named by what it
\* holds: a node record with uuid 1 or 2, a node record without "uuid", an
\* edge record, text that is not JSON, a JSON list, a blank line.
NodeLines == {"N1", "N2", "N0", "bad", "list", ""}

EdgeLines == {"E12", "E13", "bad", "list"}

Paths == 1..MaxFiles

Dict(uuid, source, target) ==
    [t |-> "dict", uuid |-> uuid, source |-> source, target |-> target]

\* json.loads(line) of a line that parses; a key the record lacks reads as
\* None (NoNode) through .get
json_loads(line) ==
    CASE line = "N1" -> Dict(1, NoNode, NoNode)
      [] line = "N2" -> Dict(2, NoNode, NoNode)
      [] line = "N0" -> Dict(NoNode, NoNode, NoNode)
      [] line = "E12" -> Dict(NoNode, 1, 2)
      [] line = "E13" -> Dict(NoNode, 1, 3)
      [] OTHER -> [t |-> "list", uuid |-> NoNode, source |-> NoNode,
                   target |-> NoNode]

\* json.loads raises on the line
JSONDecodeError(line) == line = "bad"

\* "if line.strip()"
Stripped(line) == line # ""

RECURSIVE Concat(_, _)
\* the lines of the files, file after file, in the order of "paths"
Concat(d, paths) ==
    IF paths = <<>> THEN <<>>
    ELSE d[Head(paths)] \o Concat(d, Tail(paths))

\* _load_jsonl_files(paths): the records of every non-blank line, or the
\* exception of the first line that does not parse
_load_jsonl_files(d, paths) ==
    LET lines == SelectSeq(Concat(d, paths), Stripped)
    IN  [raised |-> \E k \in DOMAIN lines : JSONDecodeError(lines[k]),
         out |-> [k \in DOMAIN lines |-> json_loads(lines[k])]]

\* an edge kept although its target is no node
KeepsEdge_SourceOnly(valid, e) == e.source \in valid

\* "if s in valid and t in valid"
KeepsEdge(valid, e) == e.source \in valid /\ e.target \in valid

\* the graph _build_graph has built from the records given
Built(nodes, edges) ==
    LET valid == {nodes[k].uuid : k \in DOMAIN nodes} \ {NoNode}
        kept == SelectSeq(edges, LAMBDA e : KeepsEdge(valid, e))
    IN  [nodes |-> valid,
         edges |-> [k \in DOMAIN kept |->
                      <<kept[k].source, kept[k].target>>]]

\* n.get / e.get raises on a record that is no dict
AttributeError(records) ==
    \E k \in DOMAIN records : records[k].t # "dict"

\* _build_graph(nodes, edges)
_build_graph(nodes, edges) ==
    [raised |-> AttributeError(nodes) \/ AttributeError(edges),
     G |-> Built(nodes, edges)]

number_of_nodes(g) == Cardinality(g.nodes)

number_of_edges(g) == Len(g.edges)

RECURSIVE SortedSeq(_)
\* sorted(files, key=str): paths are numbered in the order of their names
SortedSeq(S) ==
    IF S = {} THEN <<>>
    ELSE LET m == CHOOSE x \in S : \A y \in S : x <= y
         IN  <<m>> \o SortedSeq(S \ {m})

\* the files in manifest order, unsorted
_bundle_files_ListOrder(nf, ef, ix) == nf \o ef \o ix

\* the files as listed, the edges files first
_bundle_files_EdgesFirst(nf, ef, ix) == ef \o nf \o ix

\* _bundle_files(): nodes, edges and the index file, sorted by path
_bundle_files(nf, ef, ix) == SortedSeq(Range(nf \o ef \o ix))

\* _hash_files(files): the digest of the bytes of the files in the order
\* given; equal digests mean equal byte streams
_hash_files(d, files) == <<"#">> \o Concat(d, files)

\* a checksum without the algorithm prefix
compute_checksum_NoAlgo(d, nf, ef, ix) == _hash_files(d, _bundle_files(nf, ef, ix))

\* compute_checksum(): "sha256:" + hex
compute_checksum(d, nf, ef, ix) ==
    <<"sha256", ":">> \o _hash_files(d, _bundle_files(nf, ef, ix))

\* index of the first ":" of a string, 0 when there is none
FirstColon(q) ==
    IF \E k \in DOMAIN q : q[k] = ":"
    THEN CHOOSE k \in DOMAIN q : q[k] = ":" /\ \A j \in 1..(k - 1) : q[j] # ":"
    ELSE 0

\* declared.partition(":"): (before, after) of the first ":"
partition(q) ==
    LET c == FirstColon(q)
    IN  IF c = 0 THEN [algo |-> q, hexval |-> <<>>]
        ELSE [algo |-> SubSeq(q, 1, c - 1),
              hexval |-> SubSeq(q, c + 1, Len(q))]

\* algo.lower()
lower(q) == [k \in DOMAIN q |-> IF q[k] = "SHA256" THEN "sha256" ELSE q[k]]

\* (self.manifest.get("integrity") or {}).get(key)
IntegrityGet(m, key) ==
    IF m.integrity = None THEN None ELSE m.integrity[1][key]

\* the "invalid" payload without the computed digest
InvalidPayload_NoComputed(hexval, computed) ==
    Integrity("invalid", FALSE, Some(hexval), None, None, None)

\* the payload of a digest mismatch
InvalidPayload(hexval, computed) ==
    Integrity("invalid", FALSE, Some(hexval), Some(computed), None, None)

\* checksum_status()
checksum_status(m, d, nf, ef, ix) ==
    LET declared == IntegrityGet(m, "checksum")
        parts == partition(declared[1])
        computed == _hash_files(d, _bundle_files(nf, ef, ix))
    IN  IF declared = None \/ declared = Some(<<>>)
        THEN Integrity("missing", FALSE, None, None, None, None)
        ELSE IF lower(parts.algo) # <<"sha256">> \/ parts.hexval = <<>>
        THEN Integrity("unsupported", FALSE, declared, None, None, None)
        ELSE IF computed # parts.hexval
        THEN InvalidPayload(parts.hexval, computed)
        ELSE Integrity("valid", TRUE, None, None, declared,
                       IntegrityGet(m, "content_rev"))

\* self.G after a load whose build raised half way: the graph of the
\* records read before the one that raised
GraphAfterFailure_Partial(held, nodes, edges) ==
    LET ok(rs, k) == \A j \in 1..k : rs[j].t = "dict"
        good(rs) == SelectSeq(rs, LAMBDA r : r.t = "dict")
        before(rs) == SubSeq(rs, 1, Cardinality({k \in DOMAIN rs : ok(rs, k)}))
    IN  IF AttributeError(nodes) THEN Some(Built(before(nodes), <<>>))
        ELSE Some(Built(nodes, before(edges)))

\* self.G after a load that failed: self.G is assigned only after
\* _build_graph has returned
GraphAfterFailure(held, nodes, edges) == held

\* load(): the payload returned and self.G afterwards
load(m, d, nf, ef, ix, held) ==
    LET integrity == checksum_status(m, d, nf, ef, ix)
        result == [_base_payload EXCEPT
                      !.integrity = integrity,
                      !.checksum_passed = integrity.checksum_passed]
        nodes == _load_jsonl_files(d, nf)
        edges == _load_jsonl_files(d, ef)
        built == _build_graph(nodes.out, edges.out)
    IN  IF nodes.raised \/ edges.raised
        THEN [G |-> held,
              result |-> [result EXCEPT !.errors = <<"load_jsonl_failed">>]]
        ELSE IF built.raised
        THEN [G |-> GraphAfterFailure(held, nodes.out, edges.out),
              result |-> [result EXCEPT !.errors = <<"build_graph_failed">>]]
        ELSE [G |-> Some(built.G),
              result |-> [result EXCEPT
                            !.graph_loaded = TRUE,
                            !.nodes = number_of_nodes(built.G),
                            !.edges = number_of_edges(built.G)]]

\* update_manifest(bump_rev): self.manifest afterwards
update_manifest(m, d, nf, ef, ix, bump_rev) ==
    LET checksum == compute_checksum(d, nf, ef, ix)
        rev == IF bump_rev THEN Some("utcnow")
               ELSE IntegrityGet(m, "content_rev")
    IN  [integrity |-> Some([checksum |-> Some(checksum),
                             content_rev |-> rev])]

\* the manifest entries a bundle can come with: no "integrity", no
\* checksum, an empty one, another algorithm, no hex part, the digest of
\* the bundle (lower or upper case algorithm), the digest of the files in
\* manifest order, the digest of other bytes
Declared(d, nf, ef, ix) ==
    LET good == _hash_files(d, SortedSeq(Range(nf \o ef \o ix)))
        listed == _hash_files(d, nf \o ef \o ix)
        entry(c) == [integrity |-> Some([checksum |-> c, content_rev |-> None])]
    IN  {NoIntegrity, entry(None), entry(Some(<<>>)),
         entry(Some(<<"md5", ":">> \o good)),
         entry(Some(<<"sha256">>)), entry(Some(<<"sha256", ":">>)),
         entry(Some(<<"sha256", ":">> \o good)),
         entry(Some(<<"SHA256", ":">> \o good)),
         entry(Some(<<"sha256", ":">> \o listed)),
         entry(Some(<<"sha256", ":", "#", "deadbeef">>))}

\* the object right after __init__
Constructed ==
    /\ self_G = None
    /\ load_result = _base_payload
    /\ integrity_result = _base_payload.integrity
    /\ lpc = "constructed"

\* One nodes file and one edges file of up to MaxLines lines each, in
\* either path order; the manifest declares the digest of the bundle or
\* another one.
InitRecords ==
    \E a, b \in {1, 2} :
    \E nl \in SeqsUpTo(NodeLines, MaxLines) :
    \E el \in SeqsUpTo(EdgeLines, MaxLines) :
        /\ a # b
        /\ nodes_files = <<a>>
        /\ edges_files = <<b>>
        /\ index_path = None
        /\ disk = [p \in {a, b} |-> IF p = a THEN nl ELSE el]
        /\ \E good \in BOOLEAN :
              manifest = [integrity |-> Some(
                  [checksum |-> Some(<<"sha256", ":">> \o
                        (IF good THEN _hash_files(disk, SortedSeq({a, b}))
                         ELSE <<"#", "deadbeef">>)),
                   content_rev |-> None])]
        /\ Constructed

\* Up to MaxFiles files of one record each, listed in any order as nodes
\* files, edges files and index; any manifest entry.
InitBundle ==
    \E nf \in InjectiveSeqs(Paths, MaxFiles) :
    \E ef \in InjectiveSeqs(Paths \ Range(nf), MaxFiles) :
    \E ix \in {None} \cup {Some(p) : p \in Paths \ (Range(nf) \cup Range(ef))} :
    \E d \in [Range(nf \o ef \o ix) -> {<<"N1">>, <<"N2">>}] :
        /\ nodes_files = nf
        /\ edges_files = ef
        /\ index_path = ix
        /\ disk = d
        /\ manifest \in Declared(d, nf, ef, ix)
        /\ Constructed

InitLoad ==
    /\ InitRecords \/ InitBundle
    /\ PipelineIdle /\ SelectionIdle /\ GraphIdle /\ OutlineIdle /\ NodesIdle

Bundle == <<nodes_files, edges_files, index_path, disk>>

\* a call of checksum_status()
ChecksumStatus ==
    /\ lpc # "idle"
    /\ integrity_result' = checksum_status(manifest, disk, nodes_files,
                                           edges_files, index_path)
    /\ load_result' = _base_payload
    /\ lpc' = "checksum_status"
    /\ UNCHANGED <<manifest, Bundle, self_G>>
    /\ UNCHANGED <<pipeline, selection, graphcall, outliner, agentnodes>>

\* a call of load()
Load ==
    /\ lpc # "idle"
    /\ LET r == load(manifest, disk, nodes_files, edges_files, index_path,
                     self_G)
       IN  /\ self_G' = r.G
           /\ load_result' = r.result
           /\ integrity_result' = r.result.integrity
    /\ lpc' = "load"
    /\ UNCHANGED <<manifest, Bundle>>
    /\ UNCHANGED <<pipeline, selection, graphcall, outliner, agentnodes>>

\* a call of update_manifest(bump_rev)
UpdateManifest ==
    /\ lpc # "idle"
    /\ \E bump_rev \in BOOLEAN :
          manifest' = update_manifest(manifest, disk, nodes_files,
                                      edges_files, index_path, bump_rev)
    /\ integrity_result' = checksum_status(manifest', disk, nodes_files,
                                           edges_files, index_path)
    /\ load_result' = _base_payload
    /\ lpc' = "update_manifest"
    /\ UNCHANGED <<Bundle, self_G>>
    /\ UNCHANGED <<pipeline, selection, graphcall, outliner, agentnodes>>

NextLoad ==
    \/ ChecksumStatus
    \/ Load
    \/ UpdateManifest

SpecLoad == InitLoad /\ [][NextLoad]_vars

\* the bundles of one record per file, under every listing and manifest
InitVerify ==
    /\ InitBundle
    /\ PipelineIdle /\ SelectionIdle /\ GraphIdle /\ OutlineIdle /\ NodesIdle

SpecVerify == InitVerify /\ [][NextLoad]_vars

\* ========================================================================
\* GraphOps.build_outline_for_frontend and build_section_traces_for_frontend
\* ========================================================================
\* A string is the sequence of its code points ("25.9" is <<50, 53, 46, 57>>)
\* and a sort key is the sequence of its fields: an int is itself, a string
\* or a tuple is followed by End, which is below every code point and every
\* field, so that Python's order of tuples is the lexicographic order of the
\* sequences.
End == 0 - 1

Str(s) == s \o <<End>>

\* a < b for two keys, two strings or two tuples of ints
LexLess(a, b) ==
    \E k \in 1..(Min(Len(a), Len(b)) + 1) :
        /\ \A j \in 1..(k - 1) : a[j] = b[j]
        /\ \/ k > Len(a) /\ k <= Len(b)
           \/ k <= Len(a) /\ k <= Len(b) /\ a[k] < b[k]

INF == 10 ^ 9

IsDigit(c) == c \in 48..57

IsSpace(c) == c = 32

\* the last index of the run of digits that starts at i
DigitsEnd(s, i) ==
    CHOOSE j \in i..Len(s) :
        /\ \A k \in i..j : IsDigit(s[k])
        /\ j = Len(s) \/ ~IsDigit(s[j + 1])

\* (\d+)\.(\d+) matches at i
PairAt(s, i) ==
    /\ i \in DOMAIN s
    /\ IsDigit(s[i])
    /\ \E j \in {DigitsEnd(s, i)} :
          j + 2 <= Len(s) /\ s[j + 1] = 46 /\ IsDigit(s[j + 2])

RECURSIVE int(_)
\* int(digits)
int(q) ==
    IF q = <<>> THEN 0
    ELSE int(SubSeq(q, 1, Len(q) - 1)) * 10 + (q[Len(q)] - 48)

\* the groups of the match at i and the index after it
PairGroups(s, i) ==
    LET j == DigitsEnd(s, i)
        k == DigitsEnd(s, j + 2)
    IN  [major |-> int(SubSeq(s, i, j)), minor |-> int(SubSeq(s, j + 2, k)),
         rest |-> SubSeq(s, k + 1, Len(s))]

\* _parse_first_section_pair(s): re.search takes the leftmost match
_parse_first_section_pair(s) ==
    LET at == {i \in DOMAIN s : PairAt(s, i)}
        m == PairGroups(s, CHOOSE i \in at : \A j \in at : i <= j)
    IN  IF at # {} THEN <<m.major, m.minor>> ELSE <<INF, INF>>

RECURSIVE findall(_)
\* re.findall(r'\(([^)]+)\)', rest)
findall(s) ==
    IF s = <<>> THEN <<>>
    ELSE IF s[1] = 40 /\ \E q \in 3..Len(s) : s[q] = 41 /\ \A j \in 2..(q - 1) : s[j] # 41
    THEN LET q == CHOOSE q \in 3..Len(s) : s[q] = 41 /\ \A j \in 2..(q - 1) : s[j] # 41
         IN  <<SubSeq(s, 2, q - 1)>> \o findall(SubSeq(s, q + 1, Len(s)))
    ELSE findall(Tail(s))

RECURSIVE strip(_)
\* t.strip()
strip(t) ==
    IF t # <<>> /\ IsSpace(t[1]) THEN strip(Tail(t))
    ELSE IF t # <<>> /\ IsSpace(t[Len(t)]) THEN strip(SubSeq(t, 1, Len(t) - 1))
    ELSE t

\* t.lower()
str_lower(t) == [k \in DOMAIN t |-> IF t[k] \in 65..90 THEN t[k] + 32 ELSE t[k]]

\* _ROMAN: 'i' .. 'xx', the numeral of n at position n
_ROMAN ==
    <<<<105>>,
     <<105, 105>>,
     <<105, 105, 105>>,
     <<105, 118>>,
     <<118>>,
     <<118, 105>>,
     <<118, 105, 105>>,
     <<118, 105, 105, 105>>,
     <<105, 120>>,
     <<120>>,
     <<120, 105>>,
     <<120, 105, 105>>,
     <<120, 105, 105, 105>>,
     <<120, 105, 118>>,
     <<120, 118>>,
     <<120, 118, 105>>,
     <<120, 118, 105, 105>>,
     <<120, 118, 105, 105, 105>>,
     <<120, 105, 120>>,
     <<120, 120>>>>

\* tok_key(t)
tok_key(tok) ==
    LET t == strip(tok)
        tl == str_lower(t)
    IN  IF t # <<>> /\ \A k \in DOMAIN t : IsDigit(t[k]) THEN <<0, int(t)>>
        ELSE IF \E n \in DOMAIN _ROMAN : _ROMAN[n] = tl
        THEN <<1, CHOOSE n \in DOMAIN _ROMAN : _ROMAN[n] = tl>>
        ELSE IF Len(t) = 1 /\ tl[1] \in 97..122 THEN <<2, tl[1] - 97>>
        ELSE <<3>> \o Str(t)

RECURSIVE Flatten(_)
Flatten(qs) == IF qs = <<>> THEN <<>> ELSE Head(qs) \o Flatten(Tail(qs))

\* index of the first character that is no whitespace
AfterSpaces(s) ==
    CHOOSE i \in 1..(Len(s) + 1) :
        /\ \A j \in 1..(i - 1) : IsSpace(s[j])
        /\ i = Len(s) + 1 \/ ~IsSpace(s[i])

\* _paragraph_key_from_pid(pid): (major, minor, tuple of tok_key)
_paragraph_key_from_pid(pid) ==
    LET i == AfterSpaces(pid)
    IN  IF ~PairAt(pid, i) THEN <<INF, INF>> \o Str(<<>>)
        ELSE LET m == PairGroups(pid, i)
                 toks == findall(m.rest)
             IN  <<m.major, m.minor>>
                     \o Str(Flatten([k \in DOMAIN toks |-> tok_key(toks[k])]))

\* ------------------------------------------------------------------------
\* The graph of GraphOps: node uuid = position of the node record, "data"
\* holds the attributes the builders read, an attribute the record lacks
\* being the empty string (every key reads it through 'd.get(k) or ""').
\* ------------------------------------------------------------------------
Data(number, label, title, code, paragraph_id, bottom) ==
    [number |-> number, label |-> label, title |-> title, code |-> code,
     paragraph_id |-> paragraph_id, bottom_uuid |-> bottom]

\* "a or b"
Or(a, b) == IF a # <<>> THEN a ELSE b

\* F(v) with v computed once: the value a local name of the code is bound to
Bind(v, F(_)) == CHOOSE y \in {F(x) : x \in {v}} : TRUE

\* sorted(arr, key=...) and list.sort(key=...) with keys[i] the key of
\* arr[i]: a stable sort, elements of equal key keep the order of arr
sorted(arr, keys) ==
    Bind(<<arr, keys>>, LAMBDA a :
        LET n == Len(a[1])
            before(j, i) == \/ LexLess(a[2][j], a[2][i])
                            \/ a[2][j] = a[2][i] /\ j < i
            pos(i) == 1 + Cardinality({j \in 1..n : before(j, i)})
        IN  [p \in 1..n |-> a[1][CHOOSE i \in 1..n : pos(i) = p]])

\* contains_children[u]: G.edges(data=True) lists the edges of u in the
\* order of out_edges(u)
contains_children(g, u) ==
    LET es == SelectSeq(out_edges(g, u), LAMBDA e : e.relation = "CONTAINS")
    IN  [k \in DOMAIN es |-> es[k].tgt]

\* section_key[nid] of a Section
section_key(g, nid) ==
    _parse_first_section_pair(Or(g.data[nid].number, g.data[nid].label))

\* memo_min_key before the first call
NoMemo(g) == [n \in Nodes(g) |-> <<>>]

RECURSIVE min_section_key(_, _, _), MinOverChildren(_, _, _, _)
\* min_section_key(nid): the value returned and memo_min_key afterwards
min_section_key(g, nid, memo) ==
    IF memo[nid] # <<>> THEN [val |-> memo[nid], memo |-> memo]
    ELSE IF g.ntype[nid] = "Section"
    THEN [val |-> section_key(g, nid),
          memo |-> [memo EXCEPT ![nid] = section_key(g, nid)]]
    ELSE Bind(MinOverChildren(g, contains_children(g, nid), <<INF, INF>>, memo),
              LAMBDA r : [val |-> r.val, memo |-> [r.memo EXCEPT ![nid] = r.val]])

\* "for child in contains_children.get(nid, []): ... if ck < best"
MinOverChildren(g, kids, best, memo) ==
    IF kids = <<>> THEN [val |-> best, memo |-> memo]
    ELSE Bind(<<min_section_key(g, Head(kids), memo), Tail(kids), best>>,
              LAMBDA ck :
                  MinOverChildren(g, ck[2],
                                  IF LexLess(ck[1].val, ck[3]) THEN ck[1].val
                                  ELSE ck[3],
                                  ck[1].memo))

\* Sections ordered by their number read as text
_section_sort_key_NumberAsText(g, nid) ==
    Str(g.data[nid].number) \o Str(g.data[nid].label) \o Str(g.data[nid].title)

_section_sort_key(g, nid) ==
    section_key(g, nid) \o Str(g.data[nid].label) \o Str(g.data[nid].title)

_subpart_sort_key(g, nid, key) ==
    key \o Str(g.data[nid].code) \o Str(g.data[nid].label)

\* Headings ordered by their own label
_heading_sort_key_OwnLabel(g, nid, key) == Str(g.data[nid].label)

_heading_sort_key(g, nid, key) == key \o Str(g.data[nid].label)

_paragraph_sort_key(g, nid) ==
    _paragraph_key_from_pid(g.data[nid].paragraph_id)

RECURSIVE MinKeys(_, _, _)
\* the min_section_key of the elements of arr, called in the order of arr
MinKeys(g, arr, memo) ==
    IF arr = <<>> THEN [keys |-> <<>>, memo |-> memo]
    ELSE Bind(<<min_section_key(g, Head(arr), memo), Tail(arr)>>, LAMBDA r :
              Bind(MinKeys(g, r[2], r[1].memo), LAMBDA rest :
                  [keys |-> <<r[1].val>> \o rest.keys, memo |-> rest.memo]))

OutlineTypes == {"Subpart", "Heading", "Section", "Guidance", "Paragraph"}

\* buckets[t]: the children of type t in the order of kids
TypeBucket(g, kids, t) == SelectSeq(kids, LAMBDA k : g.ntype[k] = t)

\* the children of the other types: the types in the order their first
\* child appears in kids (the order of the keys of the dict "buckets"),
\* each sorted by uuid
OtherBuckets(g, kids) ==
    Bind(SelectSeq(kids, LAMBDA k : g.ntype[k] \notin OutlineTypes), LAMBDA arr :
        LET first(i) == CHOOSE j \in 1..i :
                            /\ g.ntype[arr[j]] = g.ntype[arr[i]]
                            /\ \A h \in 1..(j - 1) : g.ntype[arr[h]] # g.ntype[arr[i]]
        IN  sorted(arr, [i \in DOMAIN arr |-> <<first(i), arr[i]>>]))

\* _ordered_children(parent_id): the ids and memo_min_key afterwards
_ordered_children(g, parent_id, memo) ==
    Bind(contains_children(g, parent_id), LAMBDA kids :
    Bind([t \in OutlineTypes |-> TypeBucket(g, kids, t)], LAMBDA buckets :
    Bind(MinKeys(g, buckets["Subpart"], memo), LAMBDA ks :
    Bind(MinKeys(g, buckets["Heading"], ks.memo), LAMBDA kh :
        LET sub == buckets["Subpart"]
            hea == buckets["Heading"]
            sec == buckets["Section"]
            gui == buckets["Guidance"]
            par == buckets["Paragraph"]
        IN  [ids |->
                sorted(sub, [i \in DOMAIN sub |->
                                _subpart_sort_key(g, sub[i], ks.keys[i])])
                \o sorted(hea, [i \in DOMAIN hea |->
                                _heading_sort_key(g, hea[i], kh.keys[i])])
                \o sorted(sec, [i \in DOMAIN sec |-> _section_sort_key(g, sec[i])])
                \o sorted(gui, [i \in DOMAIN gui |-> <<gui[i]>>])
                \o sorted(par, [i \in DOMAIN par |-> _paragraph_sort_key(g, par[i])])
                \o OtherBuckets(g, kids),
             memo |-> kh.memo]))))

\* the attributes _make_outline_node copies for a type
OutlineKeys(t) ==
    CASE t = "Document" -> {"label", "title"}
      [] t = "Subpart" -> {"label", "code", "title"}
      [] t = "Heading" -> {"label"}
      [] t \in {"Section", "Guidance"} -> {"label", "number", "title"}
      [] t = "Paragraph" -> {"paragraph_id", "results"}
      [] OTHER -> {"label"}

\* _make_outline_node(nid), with the children _walk_build adds
_make_outline_node(g, nid, children) ==
    [type |-> g.ntype[nid], uuid |-> nid, keys |-> OutlineKeys(g.ntype[nid]),
     children |-> children]

\* the indices and the memo before the walk
NoIndices(g) ==
    [memo |-> NoMemo(g),
     uuid_to_path |-> [n \in Nodes(g) |-> <<>>],
     bottom_uuid_to_path |-> [n \in Nodes(g) |-> <<>>]]

RECURSIVE _walk_build(_, _, _, _), WalkChildren(_, _, _, _)
\* _walk_build(nid, path_prefix): the outline node, and the indices and
\* memo afterwards
_walk_build(g, nid, path_prefix, acc) ==
    Bind(<<Append(path_prefix, nid), _ordered_children(g, nid, acc.memo), acc>>,
         LAMBDA oc :
        LET my_path == oc[1]
            mine == [memo |-> oc[2].memo,
                     uuid_to_path |-> [oc[3].uuid_to_path EXCEPT ![nid] = my_path],
                     bottom_uuid_to_path |->
                         IF g.ntype[nid] = "Paragraph"
                         THEN [oc[3].bottom_uuid_to_path EXCEPT ![nid] = my_path]
                         ELSE oc[3].bottom_uuid_to_path]
        IN  Bind(WalkChildren(g, oc[2].ids, my_path, mine), LAMBDA r :
                [node |-> _make_outline_node(g, nid, r.nodes), acc |-> r.acc]))

\* "for cid in _ordered_children(nid): _add_child(node, _walk_build(...))"
WalkChildren(g, cids, my_path, acc) ==
    IF cids = <<>> THEN [nodes |-> <<>>, acc |-> acc]
    ELSE Bind(<<_walk_build(g, Head(cids), my_path, acc), Tail(cids), my_path>>,
              LAMBDA c :
              Bind(WalkChildren(g, c[2], c[3], c[1].acc), LAMBDA rest :
                  [nodes |-> <<c[1].node>> \o rest.nodes, acc |-> rest.acc]))

\* the roots: the Documents, or the nodes without incoming edge
doc_nodes(g) ==
    LET all == [n \in 1..Len(g.ntype) |-> n]
        docs == SelectSeq(all, LAMBDA n : g.ntype[n] = "Document")
    IN  IF docs # <<>> THEN docs
        ELSE SelectSeq(all, LAMBDA n : \A k \in DOMAIN g.edges : g.edges[k].tgt # n)

\* the path element "__corpus__"
Corpus == NoNode

\* build_outline_for_frontend(): (outline_tree, indices), and memo_min_key
\* at the return; a graph without nodes gives the empty tree
build_outline_for_frontend(g) ==
    Bind(doc_nodes(g), LAMBDA docs :
        IF Len(g.ntype) = 0
        THEN [root |-> <<>>, uuid_to_path |-> <<>>, bottom_uuid_to_path |-> <<>>,
              memo_min_key |-> <<>>]
        ELSE IF Len(docs) > 1
        THEN Bind(WalkChildren(g,
                               sorted(docs, [i \in DOMAIN docs |->
                                                Str(g.data[docs[i]].label)]),
                               <<Corpus>>, NoIndices(g)),
                  LAMBDA many :
                      [root |-> <<[type |-> "Corpus", uuid |-> Corpus, keys |-> {},
                                   children |-> many.nodes]>>,
                       uuid_to_path |-> many.acc.uuid_to_path,
                       bottom_uuid_to_path |-> many.acc.bottom_uuid_to_path,
                       memo_min_key |-> many.acc.memo])
        ELSE Bind(_walk_build(g, docs[1], <<>>, NoIndices(g)), LAMBDA one :
                      [root |-> <<one.node>>,
                       uuid_to_path |-> one.acc.uuid_to_path,
                       bottom_uuid_to_path |-> one.acc.bottom_uuid_to_path,
                       memo_min_key |-> one.acc.memo]))

\* _parent_map()[v]: the source of the last CONTAINS edge to v that
\* G.edges lists, NoNode when v has no parent
_parent_map(g, v) ==
    LET ps == {g.edges[k].src : k \in {j \in DOMAIN g.edges :
                  g.edges[j].tgt = v /\ g.edges[j].relation = "CONTAINS"}}
    IN  IF ps = {} THEN NoNode ELSE CHOOSE u \in ps : \A w \in ps : w <= u

\* GraphOps._child_sort_key(nid): numbers and paragraph ids are compared as
\* text
_child_sort_key(g, nid) ==
    LET d == g.data[nid]
        t == g.ntype[nid]
    IN  CASE t = "Subpart" -> <<0>> \o Str(d.code) \o Str(d.label)
          [] t = "Heading" -> <<1>> \o Str(d.label)
          [] t = "Section" -> <<2>> \o Str(d.number) \o Str(d.title) \o Str(d.label)
          [] t = "Guidance" -> <<3>> \o Str(d.number) \o Str(d.title) \o Str(d.label)
          [] t = "Paragraph" -> <<4>> \o Str(d.paragraph_id)
          [] OTHER -> <<9>> \o Str(Or(d.label, Or(d.number, d.title)))

\* _ordered_children_ids(children_map, parent_id)
_ordered_children_ids(g, parent_id) ==
    Bind(contains_children(g, parent_id), LAMBDA arr :
        sorted(arr, [i \in DOMAIN arr |-> _child_sort_key(g, arr[i])]))

RECURSIVE Chain(_, _, _)
\* "chain" of _rank_tuple_along_path after chain.reverse(): the nodes from
\* section_id (or the root above it) down to the node the climb began at
Chain(g, c, section_id) ==
    Bind(<<c, _parent_map(g, c)>>, LAMBDA a :
        IF a[1] = section_id \/ a[2] = NoNode THEN <<a[1]>>
        ELSE Append(Chain(g, a[2], section_id), a[1]))

\* ordered.index(child)
index(ordered, child) ==
    Bind(ordered, LAMBDA o :
        IF \E k \in DOMAIN o : o[k] = child
        THEN (CHOOSE k \in DOMAIN o :
                  o[k] = child /\ \A j \in 1..(k - 1) : o[j] # child) - 1
        ELSE 10 ^ 6)

\* _rank_tuple_along_path(children_map, parent_map, section_id, bottom_id)
_rank_tuple_along_path(g, section_id, bottom_id) ==
    Bind(Chain(g, bottom_id, section_id), LAMBDA chain :
        [i \in 1..(Len(chain) - 1) |->
            index(_ordered_children_ids(g, chain[i]), chain[i + 1])])

RECURSIVE OwningSection(_, _)
\* the first Section met climbing from c, NoNode when there is none
OwningSection(g, c) ==
    Bind(_parent_map(g, c), LAMBDA p :
        IF p = NoNode THEN NoNode
        ELSE IF g.ntype[p] = "Section" THEN p
        ELSE OwningSection(g, p))

\* the Trace nodes a row is made for, in the order of G.nodes
TraceRows(g) ==
    LET all == [n \in 1..Len(g.ntype) |-> n]
    IN  SelectSeq(all, LAMBDA n :
            /\ g.ntype[n] = "Trace"
            /\ g.data[n].bottom_uuid \in Nodes(g)
            /\ OwningSection(g, g.data[n].bottom_uuid) # NoNode)

\* build_section_traces_for_frontend(): section_traces, the rows of every
\* Section sorted by rank; a Section without row has no entry
build_section_traces_for_frontend(g) ==
    Bind(TraceRows(g), LAMBDA traces :
        [sid \in Nodes(g) |->
            Bind(SelectSeq(traces, LAMBDA n :
                     OwningSection(g, g.data[n].bottom_uuid) = sid), LAMBDA tids :
            Bind(sorted(tids, [i \in DOMAIN tids |->
                     _rank_tuple_along_path(g, sid, g.data[tids[i]].bottom_uuid)]),
                 LAMBDA rows :
                     [i \in DOMAIN rows |->
                         [trace_uuid |-> rows[i],
                          bottom_uuid |-> g.data[rows[i]].bottom_uuid]]))])

\* the index enumerate(rows) gives the row at position i of the list
LookupIndex_OneBased(i) == i

LookupIndex(i) == i - 1

\* trace_lookup: for the Trace of every row, its Section, the index of the
\* row in the Section's list and its bottom_uuid; a later row of the same
\* Trace would overwrite the entry
trace_lookup(g, rows) ==
    [t \in Nodes(g) |->
        LET hits == {h \in UNION {{<<sid, i>> : i \in DOMAIN rows[sid]} :
                                      sid \in DOMAIN rows} :
                        rows[h[1]][h[2]].trace_uuid = t}
            last == CHOOSE h \in hits : \A o \in hits :
                        o[1] < h[1] \/ (o[1] = h[1] /\ o[2] <= h[2])
        IN  IF hits = {} THEN <<>>
            ELSE <<[section_uuid |-> last[1],
                    index |-> LookupIndex(last[2]),
                    bottom_uuid |-> rows[last[1]][last[2]].bottom_uuid]>>]

\* ------------------------------------------------------------------------
\* The graphs the builders are run on.  Strings: "25.9", "25.10", "A",
\* "B", "T", and paragraph ids "25.9(2)", "25.9(10)", "25.9(i)", "25.9(b)"
\* (the nested one) and "(a)", which has no number pair.
\* ------------------------------------------------------------------------
NoData == Data(<<>>, <<>>, <<>>, <<>>, <<>>, NoNode)

Numbers == {<<50, 53, 46, 57>>, <<50, 53, 46, 49, 48>>, <<>>}

Labels == {<<65>>, <<66>>}

Titles == {<<>>, <<84>>}

ParagraphIds ==
    {<<50, 53, 46, 57, 40, 50, 41>>, <<50, 53, 46, 57, 40, 49, 48, 41>>,
     <<50, 53, 46, 57, 40, 105, 41>>, <<40, 97, 41>>}

\* the CONTAINS edges from parent to the nodes of kids, in the order of kids
ContainsAll(parent, kids) ==
    [k \in DOMAIN kids |-> Edge(parent, kids[k], "CONTAINS")]

\* the sequences that list every element of S once
Orders(S) == {q \in [1..Cardinality(S) -> S] : Range(q) = S}

NoOutline ==
    [root |-> <<>>, uuid_to_path |-> <<>>, bottom_uuid_to_path |-> <<>>,
     memo_min_key |-> <<>>]

NoSectionTraces == [built |-> FALSE, rows |-> <<>>, lookup |-> <<>>]

\* GraphOps(G) has been constructed and no builder has run
OpsConstructed ==
    /\ outline = NoOutline
    /\ prior = NoOutline
    /\ section_traces = NoSectionTraces
    /\ results = <<>>
    /\ opc = "constructed"

\* A Document with up to MaxSiblings Sections of any number, label and
\* title, in any file order.
InitSections ==
    \E k \in 0..MaxSiblings :
    \E ds \in [1..k -> {Data(n, l, t, <<>>, <<>>, NoNode) :
                          n \in Numbers, l \in Labels, t \in Titles}] :
        ops_G = [ntype |-> <<"Document">> \o [i \in 1..k |-> "Section"],
                 data |-> <<NoData>> \o ds,
                 edges |-> ContainsAll(1, [i \in 1..k |-> i + 1])]

\* the subtree of a Heading: nothing; one Section; a Heading with the
\* Section "25.9"; the Sections "25.10" and "25.9"
Subtrees ==
    {<<>>}
    \cup {<<[ntype |-> "Section", number |-> n, up |-> 0]>> : n \in Numbers}
    \cup {<<[ntype |-> "Heading", number |-> <<>>, up |-> 0],
            [ntype |-> "Section", number |-> <<50, 53, 46, 57>>, up |-> 1]>>}
    \cup {<<[ntype |-> "Section", number |-> <<50, 53, 46, 49, 48>>, up |-> 0],
            [ntype |-> "Section", number |-> <<50, 53, 46, 57>>, up |-> 0]>>}

\* A Document with up to MaxSiblings Headings, or Subparts, each with any
\* label and any subtree, in any file order.
InitHeadings ==
    \E k \in 0..MaxSiblings :
    \E t \in {"Heading", "Subpart"} :
    \E ls \in [1..k -> Labels] :
    \E subs \in [1..k -> Subtrees] :
        LET base(i) == k + 1 + Len(Flatten(SubSeq(subs, 1, i - 1)))
            inner == Flatten([i \in 1..k |->
                        [j \in DOMAIN subs[i] |->
                            [ntype |-> subs[i][j].ntype,
                             number |-> subs[i][j].number,
                             parent |-> IF subs[i][j].up = 0 THEN i + 1
                                        ELSE base(i) + subs[i][j].up]]])
        IN  ops_G = [ntype |-> <<"Document">> \o [i \in 1..k |-> t]
                                  \o [j \in DOMAIN inner |-> inner[j].ntype],
                     data |-> <<NoData>>
                                  \o [i \in 1..k |-> [NoData EXCEPT !.label = ls[i]]]
                                  \o [j \in DOMAIN inner |->
                                        [NoData EXCEPT !.number = inner[j].number]],
                     edges |-> ContainsAll(1, [i \in 1..k |-> i + 1])
                                  \o [j \in DOMAIN inner |->
                                        Edge(inner[j].parent, k + 1 + j, "CONTAINS")]]

\* A Document with one Section "25.9" of up to MaxSiblings Paragraphs of
\* any paragraph_id in any file order, the first of which may hold a
\* Paragraph "25.9(b)" of its own, and up to MaxAnchors Traces anchored at
\* Paragraphs (a Trace has no attribute but its anchor, so the Traces are
\* listed by anchor).
InitParagraphs ==
    \E k \in 1..MaxSiblings :
    \E pids \in [1..k -> ParagraphIds] :
    \E nested \in BOOLEAN :
    \E anchors \in {q \in SeqsUpTo(3..(k + 2 + (IF nested THEN 1 ELSE 0)), MaxAnchors) :
                        \A i \in 1..(Len(q) - 1) : q[i] <= q[i + 1]} :
        LET paras == k + (IF nested THEN 1 ELSE 0)
        IN  ops_G = [ntype |-> <<"Document", "Section">>
                                  \o [i \in 1..paras |-> "Paragraph"]
                                  \o [i \in DOMAIN anchors |-> "Trace"],
                     data |-> <<NoData, [NoData EXCEPT !.number = <<50, 53, 46, 57>>]>>
                                  \o [i \in 1..paras |->
                                        [NoData EXCEPT !.paragraph_id =
                                            IF i <= k THEN pids[i]
                                            ELSE <<50, 53, 46, 57, 40, 98, 41>>]]
                                  \o [i \in DOMAIN anchors |->
                                        [NoData EXCEPT !.bottom_uuid = anchors[i]]],
                     edges |-> <<Edge(1, 2, "CONTAINS")>>
                                  \o ContainsAll(2, [i \in 1..k |-> i + 2])
                                  \o (IF nested THEN <<Edge(3, k + 3, "CONTAINS")>>
                                      ELSE <<>>)
                                  \o [i \in DOMAIN anchors |->
                                        Edge(paras + 2 + i, anchors[i], "HAS_ANCHOR")]]

\* Up to MaxSiblings Documents with a label each and no content, or one
\* Document with children of any type, the last of them under a CONTAINS
\* or a CITES edge, the edges in any file order.
InitRoots ==
    \/ \E k \in 0..MaxSiblings :
       \E ls \in [1..k -> Labels] :
           ops_G = [ntype |-> [i \in 1..k |-> "Document"],
                    data |-> [i \in 1..k |-> [NoData EXCEPT !.label = ls[i]]],
                    edges |-> <<>>]
    \/ \E k \in 1..MaxSiblings :
       \E ts \in [1..k -> {"Section", "Guidance", "Paragraph", "Trace", "Intent"}] :
       \E r \in {"CONTAINS", "CITES"} :
       \E order \in Orders(2..(k + 1)) :
           ops_G = [ntype |-> <<"Document">> \o ts,
                    data |-> [i \in 1..(k + 1) |-> NoData],
                    edges |-> [i \in 1..k |->
                                Edge(1, order[i],
                                     IF order[i] = k + 1 THEN r ELSE "CONTAINS")]]

InitOutline ==
    /\ InitSections \/ InitHeadings \/ InitParagraphs \/ InitRoots
    /\ OpsConstructed
    /\ PipelineIdle /\ SelectionIdle /\ GraphIdle /\ LoaderIdle /\ NodesIdle

\* the builders only read self.G
GraphAfterBuild_SortsEdges(g) ==
    [g EXCEPT !.edges = sorted(g.edges, [i \in DOMAIN g.edges |->
                                            <<g.edges[i].src, g.edges[i].tgt>>])]

GraphAfterBuild(g) == g

\* a call of build_outline_for_frontend()
BuildOutline ==
    /\ opc # "idle"
    /\ outline' = build_outline_for_frontend(ops_G)
    /\ prior' = outline
    /\ ops_G' = GraphAfterBuild(ops_G)
    /\ opc' = "outline"
    /\ results' = [n \in Nodes(ops_G) |-> <<>>]
    /\ UNCHANGED section_traces
    /\ UNCHANGED <<pipeline, selection, graphcall, loader, agentnodes>>

\* a call of build_section_traces_for_frontend()
BuildSectionTraces ==
    /\ opc # "idle"
    /\ section_traces' =
          Bind(build_section_traces_for_frontend(ops_G), LAMBDA rows :
              [built |-> TRUE, rows |-> rows, lookup |-> trace_lookup(ops_G, rows)])
    /\ ops_G' = GraphAfterBuild(ops_G)
    /\ opc' = "section_traces"
    /\ UNCHANGED <<outline, prior, results>>
    /\ UNCHANGED <<pipeline, selection, graphcall, loader, agentnodes>>

NextOutline ==
    \/ BuildOutline
    \/ BuildSectionTraces

SpecOutline == InitOutline /\ [][NextOutline]_vars

\* ------------------------------------------------------------------------
\* One loaded graph under every reader: the traversals of build_records_for_
\* bottom, the outline and section-trace builders, the enrichment of the
\* outline and the attachment of results.
\* ------------------------------------------------------------------------
MaxAttached == 1

RECURSIVE EnrichNode(_, _)
\* the body of the loop of enrich_sections_with_intents for out_node, and
\* for the outline nodes below it: a Section with one HAS_INTENT edge to an
\* Intent gets "intent", with several it gets "intents"
EnrichNode(g, out_node) ==
    LET intents == SelectSeq(out_edges(g, out_node.uuid), LAMBDA e :
                       e.relation = "HAS_INTENT" /\ g.ntype[e.tgt] = "Intent")
        keys == IF out_node.type # "Section" \/ out_node.uuid \notin Nodes(g)
                THEN out_node.keys
                ELSE IF intents = <<>> THEN out_node.keys
                ELSE IF Len(intents) = 1 THEN out_node.keys \cup {"intent"}
                ELSE out_node.keys \cup {"intents"}
    IN  [out_node EXCEPT
            !.keys = keys,
            !.children = [k \in DOMAIN out_node.children |->
                             EnrichNode(g, out_node.children[k])]]

\* enrich_sections_with_intents(outline_root, uuid_to_node): the outline
\* afterwards
enrich_sections_with_intents(g, o) ==
    IF Len(g.ntype) = 0 THEN o
    ELSE [o EXCEPT !.root = [k \in DOMAIN o.root |-> EnrichNode(g, o.root[k])]]

\* attach_result(outline_root, indices, item): the "results" lists of the
\* outline nodes afterwards; an item without bottom_uuid, or whose
\* bottom_uuid is no Paragraph of the outline, is not inserted
attach_result(g, o, res, item) ==
    IF item.bottom_uuid = NoNode THEN res
    ELSE IF item.bottom_uuid \notin Nodes(g) THEN res
    ELSE IF o.uuid_to_path[item.bottom_uuid] = <<>> THEN res
    ELSE IF g.ntype[item.bottom_uuid] # "Paragraph" THEN res
    ELSE [res EXCEPT ![item.bottom_uuid] = Append(@, item)]

\* the item is also stored on the node of the graph
GraphAfterAttach_WritesNode(g, item) ==
    IF item.bottom_uuid \in Nodes(g)
    THEN [g EXCEPT !.data[item.bottom_uuid].label = <<82>>]
    ELSE g

\* enrichment and attachment write outline nodes, which _make_outline_node
\* built as dicts of their own, and read self.G
GraphAfterAttach(g, item) == g

\* a call of enrich_sections_with_intents on the outline last built
EnrichSections ==
    /\ opc # "idle"
    /\ outline # NoOutline
    /\ outline' = enrich_sections_with_intents(ops_G, outline)
    /\ ops_G' = GraphAfterBuild(ops_G)
    /\ UNCHANGED <<prior, section_traces, opc, results>>
    /\ UNCHANGED <<pipeline, selection, graphcall, loader, agentnodes>>

\* a call of attach_result with the item of an item_done event
AttachResult ==
    /\ opc # "idle"
    /\ outline # NoOutline
    /\ \E b \in Nodes(ops_G) \cup {NoNode, Absent(ops_G)} :
       \E t \in {n \in Nodes(ops_G) : ops_G.ntype[n] = "Trace"} :
           LET item == [trace_uuid |-> t, bottom_uuid |-> b]
           IN  /\ \A n \in Nodes(ops_G) : Len(results[n]) < MaxAttached
               /\ results' = attach_result(ops_G, outline, results, item)
               /\ ops_G' = GraphAfterAttach(ops_G, item)
    /\ UNCHANGED <<outline, prior, section_traces, opc>>
    /\ UNCHANGED <<pipeline, selection, graphcall, loader, agentnodes>>

\* the intents of the Section (2) and of the Trace (5): none, one, two of
\* the Section, one of the Trace, one of each
SharedIntentEdges ==
    {<<>>,
     <<Edge(2, 6, "HAS_INTENT")>>,
     <<Edge(2, 6, "HAS_INTENT"), Edge(2, 7, "HAS_INTENT")>>,
     <<Edge(5, 6, "HAS_INTENT")>>,
     <<Edge(2, 6, "HAS_INTENT"), Edge(5, 7, "HAS_INTENT")>>}

\* A Document (1) with the Section "25.9" (2) of two Paragraphs (3, 4), a
\* Trace (5) anchored at the first of them and two Intents (6, 7);
\* GraphOps and build_records_for_bottom hold the same graph.
InitShared ==
    /\ \E ie \in SharedIntentEdges :
           ops_G = [ntype |-> <<"Document", "Section", "Paragraph", "Paragraph",
                                "Trace", "Intent", "Intent">>,
                    data |-> <<NoData,
                               [NoData EXCEPT !.number = <<50, 53, 46, 57>>],
                               [NoData EXCEPT !.paragraph_id = <<40, 97, 41>>],
                               [NoData EXCEPT !.paragraph_id =
                                   <<50, 53, 46, 57, 40, 50, 41>>],
                               [NoData EXCEPT !.bottom_uuid = 3],
                               NoData, NoData>>,
                    edges |-> <<Edge(1, 2, "CONTAINS"), Edge(2, 3, "CONTAINS"),
                                Edge(2, 4, "CONTAINS"), Edge(5, 3, "HAS_ANCHOR")>>
                              \o ie]
    /\ G = [ntype |-> ops_G.ntype, edges |-> ops_G.edges]
    /\ fn = "_build_trace"
    /\ bottom_uuid \in {3, Absent(G)}
    /\ CallPending
    /\ OpsConstructed
    /\ PipelineIdle /\ SelectionIdle /\ LoaderIdle /\ NodesIdle

\* A Document (1) with the Section "25.9" (2), the Section "25.10" (3)
\* under the Document or under the first Section, a Paragraph (4) under
\* any of the three and a Paragraph (5) under a Section or under the first
\* Paragraph, and up to MaxAnchors Traces whose bottom_uuid is one of the
\* Paragraphs, the nested Section, or missing.
InitAnchored ==
    /\ \E p3 \in {1, 2} :
       \E p4 \in {1, 2, 3} :
       \E p5 \in {2, 3, 4} :
       \E anchors \in SeqsUpTo({4, 5, 3, NoNode}, MaxAnchors) :
           ops_G = [ntype |-> <<"Document", "Section", "Section",
                                "Paragraph", "Paragraph">>
                                  \o [i \in DOMAIN anchors |-> "Trace"],
                    data |-> <<NoData,
                               [NoData EXCEPT !.number = <<50, 53, 46, 57>>],
                               [NoData EXCEPT !.number = <<50, 53, 46, 49, 48>>],
                               [NoData EXCEPT !.paragraph_id = <<40, 97, 41>>],
                               [NoData EXCEPT !.paragraph_id =
                                   <<50, 53, 46, 57, 40, 50, 41>>]>>
                                  \o [i \in DOMAIN anchors |->
                                        [NoData EXCEPT !.bottom_uuid = anchors[i]]],
                    edges |-> <<Edge(1, 2, "CONTAINS"), Edge(p3, 3, "CONTAINS"),
                                Edge(p4, 4, "CONTAINS"), Edge(p5, 5, "CONTAINS")>>
                                  \o Flatten([i \in DOMAIN anchors |->
                                        IF anchors[i] = NoNode THEN <<>>
                                        ELSE <<Edge(5 + i, anchors[i], "HAS_ANCHOR")>>])]
    /\ OpsConstructed
    /\ PipelineIdle /\ SelectionIdle /\ GraphIdle /\ LoaderIdle /\ NodesIdle

SpecAnchored == InitAnchored /\ [][NextOutline]_vars

\* the token "(c)" of the character c
Token(c) == <<40, c, 41>>

\* the letters a..z
Letters == 97..122

\* A Document (1) with the Section "25.9" (2) of two Paragraphs (3, 4):
\* either their paragraph_ids are "25.9" or "25.9(2)" followed by one
\* token of a letter each, or the second id is the first one followed by
\* "(1)", "(a)", "(i)" or "(a)(1)"; the edge records in either order.
InitLetters ==
    /\ \E pids \in
            {<<stem \o Token(l1), stem \o Token(l2)>> :
                stem \in {<<50, 53, 46, 57>>, <<50, 53, 46, 57>> \o Token(50)},
                l1 \in Letters, l2 \in Letters}
            \cup {<<own, own \o ext>> :
                own \in {<<50, 53, 46, 57>>, <<50, 53, 46, 57>> \o Token(97),
                         <<50, 53, 46, 57>> \o Token(105),
                         <<50, 53, 46, 57>> \o Token(50)},
                ext \in {Token(49), Token(97), Token(105), Token(97) \o Token(49)}} :
       \E first \in {3, 4} :
           ops_G = [ntype |-> <<"Document", "Section", "Paragraph", "Paragraph">>,
                    data |-> <<NoData,
                               [NoData EXCEPT !.number = <<50, 53, 46, 57>>],
                               [NoData EXCEPT !.paragraph_id = pids[1]],
                               [NoData EXCEPT !.paragraph_id = pids[2]]>>,
                    edges |-> <<Edge(1, 2, "CONTAINS"), Edge(2, first, "CONTAINS"),
                                Edge(2, 7 - first, "CONTAINS")>>]
    /\ OpsConstructed
    /\ PipelineIdle /\ SelectionIdle /\ GraphIdle /\ LoaderIdle /\ NodesIdle

SpecLetters == InitLetters /\ [][NextOutline]_vars

NextShared ==
    \/ NextGraph
    \/ NextOutline
    \/ EnrichSections
    \/ AttachResult

SpecShared == InitShared /\ [][NextShared]_vars

\* ------------------------------------------------------------------------
\* cluster_needs_pipeline: the needs with a statement are embedded, the
\* number of clusters is chosen, k-means labels them and every cluster is
\* given a title.  The embedding, the k-means fit, the silhouette score and
\* the title are made outside the repository: a fit is any labelling with
\* labels below k, and any of these calls may raise.
\* ------------------------------------------------------------------------
MaxItems == 4

\* statements: "", " " and "n"
Statements == {<<>>, <<32>>, <<110>>}

\* "(it.get('statement') or '').strip()" is not empty
HasStatement(it) == strip(it.statement) # <<>>

\* "usable = [it for it in items if (it.get('statement') or '').strip()]"
usable(its) == SelectSeq(its, HasStatement)

\* the result when less than two usable items are given
ShortCircuits_BelowTwo(n) == n < 2

\* "if not usable" or "if len(usable) < 3": the trivial result is returned
ShortCircuits(n) == n = 0 \/ n < 3

Trivial == [k |-> 0, map |-> <<>>, clusters |-> <<>>]

\* int(np.sqrt(n) * 2)
TwiceRoot(n) == CHOOSE m \in 0..(2 * n + 1) : m * m <= 4 * n /\ (m + 1) * (m + 1) > 4 * n

Max(a, b) == IF a > b THEN a ELSE b

\* "k_max=min(20, max(2, int(np.sqrt(len(texts)) * 2)))", and in
\* choose_best_k "k_max_eff = min(int(k_max), n - 1)"
k_max_eff(n) == Min(Min(20, Max(2, TwiceRoot(n))), n - 1)

\* "k_min_eff = min(int(k_min), k_max_eff)" with k_min=2
k_min_eff(n) == Min(2, k_max_eff(n))

\* the labellings KMeans(n_clusters=k).fit_predict may return for n rows
Labelings(n, k) == [1..n -> 0..(k - 1)]

\* silhouette_score accepts the labelling: 2 to n - 1 different labels
Scorable(lab) ==
    /\ Cardinality(Range(lab)) >= 2
    /\ Cardinality(Range(lab)) <= Len(lab) - 1

\* the indices of the rows labelled lab, in the order of enumerate(labels)
Idxs(labs, lab) == SelectSeq([j \in DOMAIN labs |-> j], LAMBDA j : labs[j] = lab)

RECURSIVE Ordered(_, _)
\* "sorted(grouped.items(), key=lambda kv: (-len(kv[1]), kv[0]))": the
\* labels of S, the larger group first and then the smaller label
Ordered(labs, S) ==
    IF S = {} THEN <<>>
    ELSE LET first == CHOOSE l \in S : \A m \in S :
                          \/ Len(Idxs(labs, l)) > Len(Idxs(labs, m))
                          \/ Len(Idxs(labs, l)) = Len(Idxs(labs, m)) /\ l <= m
         IN  <<first>> \o Ordered(labs, S \ {first})

\* the dict cluster_needs_pipeline returns for the usable items u labelled
\* labs; the cluster id "C-01" is 1; map_out keeps the last cluster
\* assigned to a need_id
Clustered(u, labs) ==
    LET ordered == Ordered(labs, Range(labs))
        clusters_out ==
            [i \in DOMAIN ordered |->
                LET idxs == Idxs(labs, ordered[i])
                IN  [cluster_id |-> i, size |-> Len(idxs),
                     need_ids |-> [j \in DOMAIN idxs |-> u[idxs[j]].need_id]]]
        map_out ==
            [id \in {u[j].need_id : j \in DOMAIN u} |->
                CHOOSE i \in DOMAIN clusters_out :
                    /\ id \in Range(clusters_out[i].need_ids)
                    /\ \A h \in DOMAIN clusters_out :
                           id \in Range(clusters_out[h].need_ids) => h <= i]
    IN  [k |-> Len(clusters_out), map |-> map_out, clusters |-> clusters_out]

\* up to MaxItems items, the need_id of each its own, with any statement,
\* and k left out, 1 or 2
InitClustering ==
    /\ \E n \in 0..MaxItems :
       \E sts \in [1..n -> Statements] :
           need_items = [i \in 1..n |-> [need_id |-> i, statement |-> sts[i]]]
    /\ k_arg \in {None, Some(1), Some(2)}
    /\ cpc = "call"
    /\ k_auto = 0
    /\ labels = <<>>
    /\ cluster_result = <<>>
    /\ PipelineIdle /\ SelectionIdle /\ GraphIdle /\ LoaderIdle /\ OutlineIdle /\ RelayIdle
    /\ MergerIdle /\ RegistryIdle /\ NeedsIdle

\* "return {'k': 0, 'map': {}, 'clusters': []}"
ShortCircuit ==
    /\ cpc = "call"
    /\ ShortCircuits(Len(usable(need_items)))
    /\ cluster_result' = Trivial
    /\ cpc' = "returned"
    /\ UNCHANGED <<need_items, k_arg, k_auto, labels>>
    /\ UNCHANGED besides_clustering

\* "X = await embed_texts(...)"
EmbedTexts ==
    /\ cpc = "call"
    /\ ~ShortCircuits(Len(usable(need_items)))
    /\ cpc' = "embedded"
    /\ UNCHANGED <<need_items, k_arg, k_auto, labels, cluster_result>>
    /\ UNCHANGED besides_clustering

\* choose_best_k: 1 for less than three rows; else the k of k_min_eff..
\* k_max_eff with the best silhouette, every fit having been scored; labels
\* holds the fit of the k chosen
ChooseBestK ==
    /\ cpc = "embedded"
    /\ LET n == Len(usable(need_items))
       IN  IF n < 3 \/ k_max_eff(n) < 2
           THEN k_auto' = 1 /\ labels' = <<>>
           ELSE \E k \in k_min_eff(n)..k_max_eff(n) :
                \E lab \in Labelings(n, k) :
                    /\ Scorable(lab)
                    /\ k_auto' = k
                    /\ labels' = lab
    /\ cpc' = "chosen"
    /\ UNCHANGED <<need_items, k_arg, cluster_result>>
    /\ UNCHANGED besides_clustering

\* kmeans_cluster(X, k_used): zeros for one cluster; the fit choose_best_k
\* scored for this k (the seed is fixed); any fit for a k it did not try
KMeansCluster ==
    /\ cpc = "chosen"
    /\ LET n == Len(usable(need_items))
           k_used == IF k_arg = None THEN k_auto ELSE k_arg[1]
           k_eff == Max(1, Min(k_used, n))
           tried == n >= 3 /\ k_eff >= k_min_eff(n) /\ k_eff <= k_max_eff(n)
       IN  IF k_eff = 1 THEN labels' = [j \in 1..n |-> 0]
           ELSE IF k_eff = k_auto THEN labels' = labels
           ELSE \E lab \in Labelings(n, k_eff) :
                    /\ tried => Scorable(lab)
                    /\ labels' = lab
    /\ cpc' = "clustered"
    /\ UNCHANGED <<need_items, k_arg, k_auto, cluster_result>>
    /\ UNCHANGED besides_clustering

\* the clusters are ordered, numbered and titled, and the dict is returned
ReturnClusters ==
    /\ cpc = "clustered"
    /\ cluster_result' = Clustered(usable(need_items), labels)
    /\ cpc' = "returned"
    /\ UNCHANGED <<need_items, k_arg, k_auto, labels>>
    /\ UNCHANGED besides_clustering

\* the embedding request, a fit or its score, or the request for a title
\* raises
ClusterRaises ==
    /\ \/ cpc = "call" /\ ~ShortCircuits(Len(usable(need_items)))
       \/ cpc = "embedded" /\ Len(usable(need_items)) >= 3
       \/ cpc = "clustered"
    /\ cpc' = "raised"
    /\ UNCHANGED <<need_items, k_arg, k_auto, labels, cluster_result>>
    /\ UNCHANGED besides_clustering

NextClustering ==
    \/ ShortCircuit
    \/ EmbedTexts
    \/ ChooseBestK
    \/ KMeansCluster
    \/ ReturnClusters
    \/ ClusterRaises

SpecClustering == InitClustering /\ [][NextClustering]_vars

\* ------------------------------------------------------------------------
\* The node find_relevant_sections_llm: every event of stream_all_traces
\* is renamed and given to the bus, progress ticks at most one per 0.05 s.
\* The time between two events is not bounded: how long ago the last tick
\* was relayed is known only as less than 0.05 s or not.
\* ------------------------------------------------------------------------
MaxStream == 3

\* the event types stream_all_traces yields
StreamTypes ==
    {"run_start", "batch_header", "batch_start", "item_done", "batch_progress",
     "batch_end", "run_end"}

\* _frs_wrap(evt)["type"]
_frs_wrap(t) ==
    CASE t = "run_start" -> "findRelevantSections.runStart"
      [] t = "batch_header" -> "findRelevantSections.batchHeader"
      [] t = "batch_start" -> "findRelevantSections.batchStart"
      [] t = "item_done" -> "findRelevantSections.itemDone"
      [] t = "batch_progress" -> "findRelevantSections.batchProgress"
      [] t = "batch_end" -> "findRelevantSections.batchEnd"
      [] t = "run_end" -> "findRelevantSections.runEnd"
      [] t = "error" -> "findRelevantSections.error"
      [] OTHER -> "findRelevantSections.event"

\* item events are throttled as well
Throttled_Items(type) ==
    type \in {"findRelevantSections.batchProgress", "findRelevantSections.itemDone"}

\* "if wrapped['type'] == 'findRelevantSections.batchProgress'"
Throttled(type) == type = "findRelevantSections.batchProgress"

\* the node is entered
InitRelay ==
    /\ produced = <<>>
    /\ relayed = <<>>
    /\ recent = FALSE
    /\ rpc = "entered"
    /\ PipelineIdle /\ SelectionIdle /\ GraphIdle /\ LoaderIdle /\ OutlineIdle
    /\ ClusteringIdle /\ MergerIdle /\ RegistryIdle /\ NeedsIdle

\* "await emit({'type': 'findRelevantSections.nodeStart', ...})"
NodeStart ==
    /\ rpc = "entered"
    /\ relayed' = Append(relayed, [type |-> "findRelevantSections.nodeStart", of |-> 0])
    /\ rpc' = "streaming"
    /\ UNCHANGED <<produced, recent>>
    /\ UNCHANGED besides_relay

\* one turn of "async for evt in stream_all_traces(...)": the event is
\* wrapped, a progress tick is skipped when the last one relayed is less
\* than 0.05 s old, anything else is given to the bus
RelayEvent ==
    /\ rpc = "streaming"
    /\ Len(produced) < MaxStream
    /\ \E t \in StreamTypes :
          LET wrapped == _frs_wrap(t)
          IN  /\ produced' = Append(produced, t)
              /\ IF Throttled(wrapped) /\ recent
                 THEN UNCHANGED <<relayed, recent>>
                 ELSE /\ relayed' = Append(relayed,
                                       [type |-> wrapped, of |-> Len(produced) + 1])
                      /\ recent' = (recent \/ Throttled(wrapped))
    /\ UNCHANGED rpc
    /\ UNCHANGED besides_relay

\* 0.05 s have gone by since the last tick relayed
TimePasses ==
    /\ rpc = "streaming"
    /\ recent
    /\ recent' = FALSE
    /\ UNCHANGED <<produced, relayed, rpc>>
    /\ UNCHANGED besides_relay

\* the stream ends: nodeDone; it raises: error; the node is cancelled:
\* aborted
NodeEnd ==
    /\ rpc = "streaming"
    /\ \E how \in {"findRelevantSections.nodeDone", "findRelevantSections.error",
                    "findRelevantSections.aborted"} :
          /\ relayed' = Append(relayed, [type |-> how, of |-> 0])
          /\ rpc' = how
    /\ UNCHANGED <<produced, recent>>
    /\ UNCHANGED besides_relay

NextRelay ==
    \/ NodeStart
    \/ RelayEvent
    \/ TimePasses
    \/ NodeEnd

SpecRelay == InitRelay /\ [][NextRelay]_vars

\* ------------------------------------------------------------------------
\* _merge_graph_and_progress: one task waits for the next update of the
\* graph and one for the next event of the queue; the generator waits for
\* either, and is suspended at every yield while the tasks and the nodes
\* go on.  The events put are numbered 1, 2, ...
\* ------------------------------------------------------------------------
MaxPuts == 2

MaxUpdates == 1

\* "t_graph = create_task(ait.__anext__()); t_prog = create_task(
\* progress_q.get())" before anything is put
InitMerge ==
    /\ progress_q = <<>>
    /\ puts = 0
    /\ updates = 0
    /\ t_graph = "pending"
    /\ t_prog = "pending"
    /\ done_tasks = {}
    /\ yielded = <<>>
    /\ mpc = "wait"
    /\ PipelineIdle /\ SelectionIdle /\ GraphIdle /\ LoaderIdle /\ OutlineIdle
    /\ ClusteringIdle /\ RelayIdle /\ RegistryIdle /\ NeedsIdle

\* a node of the graph emits: "await progress_q.put(evt)"
NodeEmits ==
    /\ mpc # "idle"
    /\ t_graph = "pending"
    /\ puts < MaxPuts
    /\ puts' = puts + 1
    /\ progress_q' = Append(progress_q, puts + 1)
    /\ UNCHANGED <<updates, t_graph, t_prog, done_tasks, yielded, mpc>>
    /\ UNCHANGED besides_merger

\* the task of progress_q.get() takes the oldest event and is done
ProgTaskGets ==
    /\ t_prog = "pending"
    /\ progress_q # <<>>
    /\ t_prog' = <<Head(progress_q)>>
    /\ progress_q' = Tail(progress_q)
    /\ UNCHANGED <<puts, updates, t_graph, done_tasks, yielded, mpc>>
    /\ UNCHANGED besides_merger

\* the task of ait.__anext__() is done: an update, or StopAsyncIteration
GraphTaskEnds ==
    /\ t_graph = "pending"
    /\ \/ /\ updates < MaxUpdates
          /\ updates' = updates + 1
          /\ t_graph' = "update"
       \/ /\ t_graph' = "stop"
          /\ UNCHANGED updates
    /\ UNCHANGED <<progress_q, puts, t_prog, done_tasks, yielded, mpc>>
    /\ UNCHANGED besides_merger

\* "done, _ = await asyncio.wait({t_graph, t_prog}, return_when=
\* FIRST_COMPLETED)" returns the tasks that are done by then
WaitReturns ==
    /\ mpc = "wait"
    /\ t_graph # "pending" \/ t_prog # "pending"
    /\ done_tasks' = {t \in {"t_graph", "t_prog"} :
                         \/ t = "t_graph" /\ t_graph # "pending"
                         \/ t = "t_prog" /\ t_prog # "pending"}
    /\ mpc' = "graph"
    /\ UNCHANGED <<progress_q, puts, updates, t_graph, t_prog, yielded>>
    /\ UNCHANGED besides_merger

\* "if t_graph in done": an update is yielded and a new task made; at
\* StopAsyncIteration the queue is drained
GraphBranch ==
    /\ mpc = "graph"
    /\ IF "t_graph" \notin done_tasks
       THEN /\ mpc' = "prog"
            /\ UNCHANGED <<t_graph, yielded>>
       ELSE IF t_graph = "stop"
       THEN /\ mpc' = "drain"
            /\ UNCHANGED <<t_graph, yielded>>
       ELSE /\ yielded' = Append(yielded, [source |-> "graph", payload |-> updates])
            /\ t_graph' = "pending"
            /\ mpc' = "prog"
    /\ UNCHANGED <<progress_q, puts, updates, t_prog, done_tasks>>
    /\ UNCHANGED besides_merger

\* "evt = progress_q.get_nowait()": yielded, or QueueEmpty and "break",
\* which leaves the loop without looking at t_prog
Drain ==
    /\ mpc = "drain"
    /\ IF progress_q # <<>>
       THEN /\ yielded' = Append(yielded, [source |-> "progress",
                                           payload |-> Head(progress_q)])
            /\ progress_q' = Tail(progress_q)
            /\ UNCHANGED mpc
       ELSE /\ mpc' = "finally"
            /\ UNCHANGED <<yielded, progress_q>>
    /\ UNCHANGED <<puts, updates, t_graph, t_prog, done_tasks>>
    /\ UNCHANGED besides_merger

\* "if t_prog in done": its event is yielded and a new task made
ProgBranch ==
    /\ mpc = "prog"
    /\ IF "t_prog" \in done_tasks
       THEN /\ yielded' = Append(yielded, [source |-> "progress", payload |-> t_prog[1]])
            /\ t_prog' = "pending"
       ELSE UNCHANGED <<yielded, t_prog>>
    /\ mpc' = "wait"
    /\ UNCHANGED <<progress_q, puts, updates, t_graph, done_tasks>>
    /\ UNCHANGED besides_merger

\* "finally": a task that is not done is cancelled
Finally ==
    /\ mpc = "finally"
    /\ t_prog' = IF t_prog = "pending" THEN "cancelled" ELSE t_prog
    /\ mpc' = "finished"
    /\ UNCHANGED <<progress_q, puts, updates, t_graph, done_tasks, yielded>>
    /\ UNCHANGED besides_merger

NextMerge ==
    \/ NodeEmits
    \/ ProgTaskGets
    \/ GraphTaskEnds
    \/ WaitReturns
    \/ GraphBranch
    \/ Drain
    \/ ProgBranch
    \/ Finally

SpecMerge == InitMerge /\ [][NextMerge]_vars

\* ------------------------------------------------------------------------
\* progress_bus: one emitter per key, the key being the tab_id (no caller
\* passes run_scope).  stream_agent_response registers the _emit of its
\* run, the nodes of the run emit under its tab_id, and "finally"
\* unregisters the tab_id.
\* ------------------------------------------------------------------------
MaxRuns == 2

MaxEmits == 2

Runs == 1..MaxRuns

Tabs == {"tab-a", "tab-b"}

\* _key(tab_id, run_scope) with run_scope=None
_key(tab_id) == tab_id

\* the module is imported and no request has come
InitBus ==
    /\ _emitters = [k \in Tabs |-> 0]
    /\ run_tab = [r \in Runs |-> "tab-a"]
    /\ run_pc = [r \in Runs |-> "idle"]
    /\ delivered = <<>>
    /\ PipelineIdle /\ SelectionIdle /\ GraphIdle /\ LoaderIdle /\ OutlineIdle
    /\ ClusteringIdle /\ RelayIdle /\ MergerIdle /\ NeedsIdle

\* stream_agent_response(tab_id, ...): "await pb_register(tab_id, _emit)"
RunStarts ==
    \E r \in Runs : \E tab \in Tabs :
        /\ run_pc[r] = "idle"
        /\ run_tab' = [run_tab EXCEPT ![r] = tab]
        /\ _emitters' = [_emitters EXCEPT ![_key(tab)] = r]
        /\ run_pc' = [run_pc EXCEPT ![r] = "active"]
        /\ UNCHANGED delivered
        /\ UNCHANGED besides_registry

\* a node of run r: "await bus_emit(tab_id, evt)"; the event goes to the
\* emitter registered under the key, or nowhere
BusEmit ==
    \E r \in Runs :
        /\ run_pc[r] = "active"
        /\ Len(delivered) < MaxEmits
        /\ delivered' = Append(delivered,
                               [from |-> r, to |-> _emitters[_key(run_tab[r])]])
        /\ UNCHANGED <<_emitters, run_tab, run_pc>>
        /\ UNCHANGED besides_registry

\* "finally: await pb_unregister(tab_id)"
RunEnds ==
    \E r \in Runs :
        /\ run_pc[r] = "active"
        /\ _emitters' = [_emitters EXCEPT ![_key(run_tab[r])] = 0]
        /\ run_pc' = [run_pc EXCEPT ![r] = "ended"]
        /\ UNCHANGED <<run_tab, delivered>>
        /\ UNCHANGED besides_registry

NextBus ==
    \/ RunStarts
    \/ BusEmit
    \/ RunEnds

SpecBus == InitBus /\ [][NextBus]_vars

\* ------------------------------------------------------------------------
\* The node build_needs_table: the kept rows of a frozen snapshot are
\* evaluated in batches by stream_needs_for_snapshot, whose events are
\* renamed and given to the bus; at run_end the needs are clustered and
\* tagged.  The log holds, in the order they happen, the events given to
\* the bus, the creation of the evaluation tasks of a batch and the calls
\* of cluster_needs_pipeline and tag_needs_with_strands.
\* ------------------------------------------------------------------------
MaxRows == 3

MaxNeedsBatch == 2

RECURSIVE BatchSteps(_, _)
\* the steps of the batches of n rows, size rows to a batch: batch_header,
\* batch_start, the tasks are created, items_done and batch_progress for
\* every row, batch_end
BatchSteps(n, size) ==
    IF n = 0 THEN <<>>
    ELSE LET m == Min(n, size)
         IN  <<"batch_header", "batch_start", "create_tasks">>
             \o Flatten([i \in 1..m |-> <<"items_done", "batch_progress">>])
             \o <<"batch_end">>
             \o BatchSteps(n - m, size)

\* stream_needs_for_snapshot(snapshot_rows, batch_size)
stream_needs_for_snapshot(n, size) ==
    <<"run_start">> \o BatchSteps(n, size) \o <<"run_end">>

\* _wrap(evt)["type"]
_wrap(t) ==
    CASE t = "run_start" -> "needsTables.runStart"
      [] t = "batch_header" -> "needsTables.batchHeader"
      [] t = "batch_start" -> "needsTables.batchStart"
      [] t = "items_done" -> "needsTables.itemsBatch"
      [] t = "batch_progress" -> "needsTables.progress"
      [] t = "batch_end" -> "needsTables.batchEnd"
      [] t = "run_end" -> "needsTables.runEnd"
      [] t = "error" -> "needsTables.error"
      [] OTHER -> "needsTables.event"

\* an event given to the bus, by the step of the stream it answers (or
\* "-"), and the node an error event names
Given(type, of) == [kind |-> "emit", type |-> type, of |-> of, node |-> "-"]

ErrorOf(node) ==
    [kind |-> "emit", type |-> "needsTables.error", of |-> "-", node |-> node]

Call(what) == [kind |-> "call", type |-> what, of |-> "-", node |-> "-"]

Outcomes == {"returns", "raises", "cancelled"}

\* runEnd is given to the bus only when neither call has raised
AtRunEnd_OnlyOnSuccess(c, s) ==
    <<Call("cluster_needs_pipeline")>>
    \o (CASE c = "returns" -> <<Given("needsTables.clusters", "-")>>
          [] c = "raises" -> <<ErrorOf("cluster_needs_pipeline")>>
          [] OTHER -> <<>>)
    \o (IF c # "returns" THEN <<>>
        ELSE <<Call("tag_needs_with_strands")>>
             \o (CASE s = "returns" -> <<Given("needsTables.strands", "-"),
                                         Given("needsTables.runEnd", "run_end")>>
                   [] s = "raises" -> <<ErrorOf("tag_needs_with_strands")>>
                   [] OTHER -> <<>>))

\* "if wrapped['type'] == 'needsTables.runEnd'": the needs are clustered,
\* then tagged, each in a try of its own whose except gives
\* needsTables.error to the bus, and runEnd is given to the bus; a
\* cancellation leaves the loop
AtRunEnd(c, s) ==
    <<Call("cluster_needs_pipeline")>>
    \o (CASE c = "returns" -> <<Given("needsTables.clusters", "-")>>
          [] c = "raises" -> <<ErrorOf("cluster_needs_pipeline")>>
          [] OTHER -> <<>>)
    \o (IF c = "cancelled" THEN <<>>
        ELSE <<Call("tag_needs_with_strands")>>
             \o (CASE s = "returns" -> <<Given("needsTables.strands", "-")>>
                   [] s = "raises" -> <<ErrorOf("tag_needs_with_strands")>>
                   [] OTHER -> <<>>)
             \o (IF s = "cancelled" THEN <<>>
                 ELSE <<Given("needsTables.runEnd", "run_end")>>))

\* the node is entered for a context that is frozen or not, with up to
\* MaxRows rows kept and batches of up to MaxNeedsBatch rows
InitNeeds ==
    /\ frozen \in BOOLEAN
    /\ \E n \in 0..MaxRows : \E size \in 1..MaxNeedsBatch :
           needs_stream = stream_needs_for_snapshot(n, size)
    /\ needs_pos = 0
    /\ needs_log = <<>>
    /\ npc = "entered"
    /\ PipelineIdle /\ SelectionIdle /\ GraphIdle /\ LoaderIdle /\ OutlineIdle
    /\ ClusteringIdle /\ RelayIdle /\ MergerIdle /\ RegistryIdle

\* "if not frozen": runEnd is given to the bus and the node returns
NotFrozen ==
    /\ npc = "entered"
    /\ ~frozen
    /\ needs_log' = Append(needs_log, Given("needsTables.runEnd", "-"))
    /\ npc' = "returned"
    /\ UNCHANGED <<frozen, needs_stream, needs_pos>>
    /\ UNCHANGED besides_needsrun

\* the rows are filtered and nodeStart is given to the bus
NeedsNodeStart ==
    /\ npc = "entered"
    /\ frozen
    /\ needs_log' = Append(needs_log, Given("needsTables.nodeStart", "-"))
    /\ npc' = "streaming"
    /\ UNCHANGED <<frozen, needs_stream, needs_pos>>
    /\ UNCHANGED besides_needsrun

\* a progress tick may be skipped when one was given to the bus before
MaySkip == \E i \in DOMAIN needs_log : needs_log[i].of = "batch_progress"

\* one step of the stream and the turn of "async for" that answers it
NeedsStep ==
    /\ npc = "streaming"
    /\ needs_pos < Len(needs_stream)
    /\ needs_pos' = needs_pos + 1
    /\ LET t == needs_stream[needs_pos + 1]
       IN  CASE t = "create_tasks" ->
                   /\ needs_log' = Append(needs_log, Call("create_task"))
                   /\ UNCHANGED npc
             [] t = "run_start" ->
                   /\ needs_log' = Append(needs_log, Given("needsTables.runStart", t))
                   /\ UNCHANGED npc
             [] t = "items_done" ->
                   /\ \E items \in BOOLEAN :
                         needs_log' = needs_log
                             \o (IF items THEN <<Given("needsTables.itemsBatch", t)>>
                                 ELSE <<>>)
                             \o <<Given("needsTables.progress", t)>>
                   /\ UNCHANGED npc
             [] t = "batch_progress" ->
                   /\ \/ MaySkip /\ UNCHANGED needs_log
                      \/ needs_log' = Append(needs_log, Given("needsTables.progress", t))
                   /\ UNCHANGED npc
             [] t = "run_end" ->
                   \E c, s \in Outcomes :
                       /\ needs_log' = needs_log \o AtRunEnd(c, s)
                       /\ npc' = IF c = "cancelled" \/ s = "cancelled"
                                 THEN "cancelling" ELSE "streaming"
             [] OTHER ->
                   /\ needs_log' = Append(needs_log, Given(_wrap(t), t))
                   /\ UNCHANGED npc
    /\ UNCHANGED <<frozen, needs_stream>>
    /\ UNCHANGED besides_needsrun

\* the stream is exhausted: nodeDone; an evaluation raises out of the
\* stream: needsTables.error of the node; the node is cancelled: aborted
NeedsNodeEnd ==
    /\ \/ /\ npc = "streaming"
          /\ needs_pos = Len(needs_stream)
          /\ needs_log' = Append(needs_log, Given("needsTables.nodeDone", "-"))
          /\ npc' = "returned"
       \/ /\ npc = "streaming"
          /\ needs_pos < Len(needs_stream)
          /\ needs_stream[needs_pos + 1] = "items_done"
          /\ needs_log' = Append(needs_log, ErrorOf("build_needs_table"))
          /\ npc' = "returned"
       \/ /\ \/ npc = "streaming" /\ needs_pos < Len(needs_stream)
             \/ npc = "cancelling"
          /\ needs_log' = Append(needs_log, Given("needsTables.aborted", "-"))
          /\ npc' = "cancelled"
    /\ UNCHANGED <<frozen, needs_stream, needs_pos>>
    /\ UNCHANGED besides_needsrun

NextNeeds ==
    \/ NotFrozen
    \/ NeedsNodeStart
    \/ NeedsStep
    \/ NeedsNodeEnd

SpecNeeds == InitNeeds /\ [][NextNeeds]_vars

\* ========================================================================
\* Properties
\* ========================================================================
EventPos == 1..Len(events)

Positions(type) == {p \in EventPos : events[p].type = type}

Count(type) == Cardinality(Positions(type))

\* the stream has ended while the consumer was still iterating: the
\* generator returned, or an exception left it
StreamEnded == pc \in {"done", "raised"}

\* the batch a leaf belongs to, and the number of batches, as the
\* specification states them
BatchOf(i) == ((i - 1) \div batch_size) + 1

CeilDiv(a, b) == (a + b - 1) \div b

\* batch of the event at position p: the number of batch_header events up
\* to p
BatchAt(p) == Cardinality({q \in 1..p : events[q].type = "batch_header"})

\* run_start -> {batch_header -> batch_start -> (item_done, batch_progress)*
\*               -> batch_end}* -> run_end, as an automaton over event types
ProtoStep(q, t) ==
    CASE q = "S0" /\ t = "run_start" -> "RS"
      [] q \in {"RS", "BE"} /\ t = "batch_header" -> "BH"
      [] q = "BH" /\ t = "batch_start" -> "BS"
      [] q \in {"BS", "BP"} /\ t = "item_done" -> "ID"
      [] q = "ID" /\ t = "batch_progress" -> "BP"
      [] q \in {"BS", "BP"} /\ t = "batch_end" -> "BE"
      [] q \in {"RS", "BE"} /\ t = "run_end" -> "RE"
      [] OTHER -> "bad"

RECURSIVE ProtoRun(_, _)
ProtoRun(q, evs) ==
    IF evs = <<>> THEN q ELSE ProtoRun(ProtoStep(q, Head(evs).type), Tail(evs))

ProtoState == ProtoRun("S0", events)

\* the events follow the protocol so far, batch after batch in input order
ProtocolPrefix ==
    /\ ProtoState # "bad"
    /\ \A p \in Positions("batch_header") : events[p].index = BatchAt(p)
    /\ \A p \in Positions("item_done") : BatchOf(events[p].leaf) = BatchAt(p)

\* C1: the events of a fully consumed run form exactly the sequence
\* run_start, then per batch in input order batch_header, batch_start,
\* (item_done, batch_progress)*, batch_end, then run_end as the last event;
\* nothing follows run_end and no event of batch k+1 precedes the batch_end
\* of batch k.
C1_EventProtocol ==
    /\ ProtocolPrefix
    /\ StreamEnded => ProtoState = "RE"

\* C2: a run whose consumer keeps iterating emits run_end whatever the
\* outcome of each item (success, retryable or non-retryable failure, an
\* exception raised while assembling or evaluating the item): a stream that
\* has ended has emitted run_end.
C2_RunReachesRunEnd ==
    StreamEnded => Count("run_end") = 1

\* C3: a fully consumed run over N leaves with batch size B emits exactly
\* ceil(N/B) batch_header events, exactly N item_done events, every leaf in
\* exactly one of them, exactly one run_end with non-negative token totals;
\* every batch except possibly the last has size B.
C3_Counts ==
    StreamEnded =>
        /\ Count("batch_header") = CeilDiv(N, batch_size)
        /\ Count("item_done") = N
        /\ \A i \in Ids : Cardinality({p \in Positions("item_done") : events[p].leaf = i}) = 1
        /\ Count("run_end") = 1
        /\ \A p \in Positions("run_end") : events[p].tin >= 0 /\ events[p].tout >= 0
        /\ \A p \in Positions("batch_header") :
              events[p].index < CeilDiv(N, batch_size) => events[p].size = batch_size
\* C4: batches never overlap: no task of a later batch exists (created or
\* started) while a task of an earlier batch is unresolved.
C4_NoBatchOverlap ==
    \A i, j \in Ids :
        (BatchOf(i) < BatchOf(j) /\ task[j].st # "none") => Resolved(i)

\* a task of the second batch is running
C4_Witness ==
    \E i, j \in Ids :
        BatchOf(i) < BatchOf(j) /\ task[j].st \in {"calling", "sleeping"}

\* C5: at every moment the number of leaf-evaluation tasks started (or
\* created) and not yet resolved is at most the batch size, also after the
\* consumer has stopped iterating.
C5_BoundedInFlight ==
    Cardinality({i \in Ids : InFlight(i)}) <= batch_size

\* the consumer has stopped and a full batch of two or more tasks is running
C5_Witness ==
    /\ stopped
    /\ batch_size >= 2
    /\ Cardinality({i \in Ids : task[i].st \in {"calling", "sleeping"}}) = batch_size

\* C6: a capability call that exhausts its attempts or fails non-retryably
\* never aborts its batch: the item yields one item_done carrying the failed
\* envelope (error response, zero input, output and total tokens), every
\* other item of the batch is emitted too, and batch_end follows.
C6_FailureNeverAbortsBatch ==
    StreamEnded =>
        \A i \in Ids :
            task[i].res = FailedEnvelope =>
                /\ Cardinality({p \in Positions("item_done") :
                        /\ events[p].leaf = i
                        /\ events[p].res.err = "agent_call_failed"
                        /\ events[p].res.tin = 0
                        /\ events[p].res.tout = 0
                        /\ events[p].res.ttot = 0}) = 1
                /\ \A j \in Ids :
                      BatchOf(j) = BatchOf(i) =>
                          \E p \in Positions("item_done") : events[p].leaf = j
                /\ \E p \in Positions("batch_end") : BatchAt(p) = BatchOf(i)

\* C7: the capability is invoked at most 5 times per item; a successful
\* attempt is never followed by another attempt; when the attempts end with
\* a retryable failure the capability was invoked exactly 5 times and the
\* failed envelope is returned.
C7_AtMostFiveAttempts ==
    \A i \in Ids :
        /\ task[i].calls <= 5
        /\ task[i].last = Returned =>
              task[i].st = "resolved" /\ task[i].res.err = "none"
        /\ (/\ task[i].st = "resolved"
            /\ task[i].last.cls = "APIStatusError"
            /\ task[i].last.code \in {429, 500, 502, 503, 504}) =>
              task[i].calls = 5 /\ task[i].res = FailedEnvelope

\* five retryable failures in a row: the failed envelope after 5 calls
C7_Witness ==
    \E i \in Ids :
        /\ task[i].st = "resolved"
        /\ task[i].calls = 5
        /\ task[i].last = StatusError(503)
        /\ task[i].res = FailedEnvelope

\* the transient class as the claim states it
TransientStatus(f) == f.cls = "APIStatusError" /\ f.code \in {429, 500, 502, 503, 504}

Failed(f) == f.cls \in {"APIStatusError", "Exception"}

\* C8 as stated: an attempt is retried only after a failure with upstream
\* status 429, 500, 502, 503 or 504; any other failure ends the attempts
\* after that attempt with the failed envelope.
C8_RetryOnlyTransientStatus ==
    \A i \in Ids :
        /\ task[i].st = "sleeping" => TransientStatus(task[i].last)
        /\ (Failed(task[i].last) /\ ~TransientStatus(task[i].last)) =>
              task[i].st = "resolved" /\ task[i].res = FailedEnvelope

\* C8 amended: a failed attempt that raised an upstream status error is
\* retried only when the status is 429, 500, 502, 503 or 504, and a status
\* error with another status ends the attempts after that attempt with the
\* failed envelope; a failure that is not a status error is retried as long
\* as attempts remain and gives the failed envelope after the fifth.
C8_RetryStatusOrOtherException ==
    \A i \in Ids :
        /\ (task[i].st = "sleeping" /\ task[i].last.cls = "APIStatusError") =>
              task[i].last.code \in {429, 500, 502, 503, 504}
        /\ (task[i].last.cls = "APIStatusError" /\ ~TransientStatus(task[i].last)) =>
              task[i].st = "resolved" /\ task[i].res = FailedEnvelope
        /\ (task[i].last.cls = "Exception" /\ task[i].st = "resolved") =>
              task[i].calls = 5 /\ task[i].res = FailedEnvelope

\* a status outside the class ends the attempts of an item that was retried
\* before, and an exception that is not a status error is being retried
C8_Witness ==
    \E i \in Ids :
        /\ task[i].st = "resolved"
        /\ task[i].last = StatusError(501)
        /\ task[i].calls = 3
        /\ task[i].res = FailedEnvelope

\* bases of the waits before retries 1..4, in tenths
ClaimBase == <<6, 12, 24, 48>>

\* C9: the wait before the k-th retry (k = 1..4) is base_k plus a jitter in
\* [0, 0.4] with bases 0.6, 1.2, 2.4, 4.8; the base never exceeds 6; no wait
\* happens after the final failed attempt.
C9_BackoffSchedule ==
    \A i \in Ids :
        /\ task[i].delay <= 60
        /\ task[i].st = "sleeping" =>
              /\ task[i].calls \in 1..4
              /\ task[i].wait - ClaimBase[task[i].calls] \in 0..4

\* the wait before the fourth retry with the largest jitter
C9_Witness ==
    \E i \in Ids :
        task[i].st = "sleeping" /\ task[i].calls = 4 /\ task[i].wait = 52

\* tokens carried at position p: the usage of an item_done ("item_in",
\* "item_out") or the totals of a progress, batch_end or run_end event
TokensAt(p, w) ==
    CASE w = "item_in" -> events[p].res.tin
      [] w = "item_out" -> events[p].res.tout
      [] w = "evt_in" -> events[p].tin
      [] w = "evt_out" -> events[p].tout

RECURSIVE SumAt(_, _)
SumAt(S, w) ==
    IF S = {} THEN 0
    ELSE LET p == CHOOSE q \in S : TRUE IN TokensAt(p, w) + SumAt(S \ {p}, w)

\* the item_done events of the batch of position p emitted before p
ItemsBefore(p) == {q \in Positions("item_done") : q < p /\ BatchAt(q) = BatchAt(p)}

\* C10: every batch_progress and batch_end carries the sums of the input
\* and output tokens of its batch's item_done events so far; run_end
\* carries the sums over all item_done events, which are also the sums of
\* the batch_end totals.
C10_RunningTotals ==
    \A p \in EventPos :
        /\ events[p].type \in {"batch_progress", "batch_end"} =>
              /\ events[p].tin = SumAt(ItemsBefore(p), "item_in")
              /\ events[p].tout = SumAt(ItemsBefore(p), "item_out")
        /\ events[p].type = "run_end" =>
              /\ events[p].tin = SumAt(Positions("item_done"), "item_in")
              /\ events[p].tout = SumAt(Positions("item_done"), "item_out")
              /\ events[p].tin = SumAt(Positions("batch_end"), "evt_in")
              /\ events[p].tout = SumAt(Positions("batch_end"), "evt_out")

\* run_end after two batches that both consumed tokens
C10_Witness ==
    \E p \in Positions("run_end") :
        /\ Count("batch_end") >= 2
        /\ \A q \in Positions("batch_end") : events[q].tin > 0
        /\ events[p].tin > events[p].tout

\* ------------------------------------------------------------------------
\* C11  The done counter and the per-batch and per-run running totals are
\* written only by steps of the consuming loop, never by a step of an
\* evaluation task, and every write accounts for exactly one resolved task:
\* a reset at batch start, or the next resolved task's usage added to the
\* batch totals with done advanced by one, or the item just emitted added
\* to the run totals.
\* ------------------------------------------------------------------------
Counters == <<done, batch_in_tokens, batch_out_tokens, total_in_tokens,
              total_out_tokens>>

TaskStates == [i \in Ids |-> task[i].st]

CounterReset ==
    /\ done' = 0 /\ batch_in_tokens' = 0 /\ batch_out_tokens' = 0
    /\ UNCHANGED <<total_in_tokens, total_out_tokens>>

BatchCountersTakeOne ==
    /\ completed # <<>>
    /\ done' = done + 1
    /\ batch_in_tokens' = batch_in_tokens + task[Head(completed)].res.tin
    /\ batch_out_tokens' = batch_out_tokens + task[Head(completed)].res.tout
    /\ UNCHANGED <<total_in_tokens, total_out_tokens>>

RunTotalsTakeOne ==
    /\ events # <<>> /\ LastEvent.type = "item_done"
    /\ total_in_tokens' = total_in_tokens + LastEvent.res.tin
    /\ total_out_tokens' = total_out_tokens + LastEvent.res.tout
    /\ UNCHANGED <<done, batch_in_tokens, batch_out_tokens>>

C11_SingleWriter ==
    [][Counters' # Counters =>
          /\ pc' # pc
          /\ TaskStates' = TaskStates
          /\ CounterReset \/ BatchCountersTakeOne \/ RunTotalsTakeOne]_vars

\* one update has been made while another task has already resolved
C11_Witness ==
    /\ pc = "y_item_done" /\ done = 1 /\ batch_in_tokens > 0
    /\ completed # <<>>

\* ------------------------------------------------------------------------
\* C12  Once the consumer has stopped iterating, no further event is
\* produced (so no batch_header of a later batch) and no task that was not
\* yet created is created; a task that was started is never taken out of
\* its run (it stays in flight until it resolves or raises), and every
\* started task eventually resolves or raises.
\* ------------------------------------------------------------------------
NotStarted(i) == task[i].st = "none"

C12_StopStartsNothing ==
    /\ [][stopped => /\ events' = events
                      /\ cur' = cur
                      /\ \A i \in Ids : NotStarted(i) => NotStarted(i)']_vars
    /\ [][\A i \in Ids : InFlight(i) => (InFlight(i)' \/ Resolved(i)')]_vars
    /\ (stopped ~> (\A i \in Ids : ~InFlight(i)))

\* the consumer stopped while a task of the current batch was in flight and
\* a later batch was still to come
C12_Witness ==
    /\ stopped /\ HasNextBatch(cur)
    /\ \E i \in Ids : InFlight(i)
    /\ \E i \in Ids : NotStarted(i)

\* ------------------------------------------------------------------------
\* C13  Within a batch, item_done events are emitted in the order in which
\* the tasks resolved: a task that resolves joins the tail of the queue of
\* resolved tasks, the queue only loses its head, every item_done carries
\* the leaf at the head of the queue, and the done counter of the i-th
\* item_done of a batch is i.
\* ------------------------------------------------------------------------
EmitsItemDone ==
    /\ Len(events') = Len(events) + 1
    /\ events'[Len(events')].type = "item_done"

C13_CompletionOrder ==
    /\ [][\A i \in Ids : (~Resolved(i) /\ Resolved(i)') =>
                              completed' = Append(completed, i)]_vars
    /\ [][completed' # completed =>
              \/ completed # <<>> /\ completed' = Tail(completed)
              \/ \E i \in Ids : ~Resolved(i) /\ completed' = Append(completed, i)
              \/ pc = "y_batch_start" /\ completed' = <<>>]_vars
    /\ [][EmitsItemDone =>
              /\ completed # <<>>
              /\ events'[Len(events')].leaf = Head(completed)
              /\ completed' = Tail(completed)]_vars
    /\ [](\A p \in Positions("item_done") :
              events[p].done = Cardinality(ItemsBefore(p)) + 1)

\* two items of one batch emitted against their submission order
C13_Witness ==
    \E p, q \in Positions("item_done") :
        /\ p < q /\ BatchAt(p) = BatchAt(q)
        /\ events[p].leaf > events[q].leaf
        /\ events[q].done = 2

\* ------------------------------------------------------------------------
\* C14  A leaf whose traversal misses (no paragraph id, or a paragraph id
\* that names no node of the graph) yields an item_done that carries an
\* error result, and once the stream has ended every item of its batch has
\* been emitted.
\* ------------------------------------------------------------------------
TraversalMiss(i) == leaves[i] \in {"missing", "absent"}

ItemDoneOf(i) == {p \in Positions("item_done") : events[p].leaf = i}

C14_MissYieldsItemError ==
    /\ \A p \in Positions("item_done") :
           TraversalMiss(events[p].leaf) => events[p].res.err # "none"
    /\ StreamEnded =>
           \A i \in Ids : TraversalMiss(i) =>
               \A k \in Ids : BatchOf(k) = BatchOf(i) => ItemDoneOf(k) # {}

\* ------------------------------------------------------------------------
\* C15  With 7 leaves, batch size 3 and a capability that fails the first 2
\* calls of every item with a transient failure and then succeeds: a task
\* resolves with a successful result after exactly 2 retries (3 calls), and
\* the completed run has emitted exactly 3 batch_header and 7 item_done
\* events, every item_done with a successful verdict, one per leaf.
\* ------------------------------------------------------------------------
Retries(t) == t.calls - 1

InFullOrder(q) ==
    \A a, b \in DOMAIN q :
        a < b => \E x, y \in DOMAIN graph_traces :
                     x < y /\ graph_traces[x] = q[a] /\ graph_traces[y] = q[b]

\* the leaves of the full list whose id is in the set S, in its order
InSubset(S) == SelectSeq(graph_traces, LAMBDA t : t \in S)

IsPrefix(q, r) == Len(q) <= Len(r) /\ q = SubSeq(r, 1, Len(q))

\* C16 as stated: for every subset that is given, and every limit that is
\* not negative
C16_SubsetThenLimit ==
    (spc = "returned" /\ selected_trace_ids # None) =>
        LET wanted == InSubset(Range(selected_trace_ids[1]))
        IN  /\ InFullOrder(picked)
            /\ IsPrefix(picked, wanted)
            /\ limit = None => picked = wanted
            /\ (limit # None /\ limit[1] >= 0) =>
                   Len(picked) = Min(limit[1], Len(wanted))

\* C16 (amended)  For a subset that is given and not empty, and a limit of
\* at least 1, of 0, or none: the leaves evaluated are the leaves of the
\* full list whose id is in the subset, each once, in the order of the full
\* list; a limit of at least 1 keeps the first "limit" of them, a limit of
\* 0 keeps all of them like no limit.
C16_NonEmptySubsetThenLimit ==
    (/\ spc = "returned"
     /\ selected_trace_ids # None /\ selected_trace_ids[1] # <<>>
     /\ limit # None => limit[1] >= 0) =>
        LET wanted == InSubset(Range(selected_trace_ids[1]))
        IN  /\ InFullOrder(picked)
            /\ IsPrefix(picked, wanted)
            /\ (limit = None \/ limit = Some(0)) => picked = wanted
            /\ (limit # None /\ limit # Some(0)) =>
                   Len(picked) = Min(limit[1], Len(wanted))

\* a subset with a duplicate id, in another order than the full list, cut
\* by a limit
C16_Witness ==
    /\ spc = "returned"
    /\ graph_traces = <<2, 1, 3>>
    /\ selected_trace_ids = Some(<<3, 2, 3>>)
    /\ limit = Some(1)
    /\ picked = <<2>>

\* ------------------------------------------------------------------------
\* C17  The upward walk (_build_trace, _build_trace_from_node) terminates
\* on every node of every graph, cycles and self-loops included: no node
\* is recorded twice, the path never holds more records than the graph has
\* nodes, the call eventually returns, and what it returns is the path
\* walked so far, which for a node of the graph ends with that node.
\* ------------------------------------------------------------------------
NoRepeat(q) == \A a, b \in DOMAIN q : a # b => q[a].uuid # q[b].uuid

Returned_ == gpc \in {"returned", "collected"}

C17_WalkTerminates ==
    /\ [](/\ NoRepeat(path) /\ NoRepeat(trace)
          /\ Len(path) <= Len(G.ntype)
          /\ Len(path) = Cardinality(visited))
    /\ <>Returned_
    /\ [](Returned_ =>
             /\ Len(trace) = Len(path)
             /\ {trace[k].uuid : k \in DOMAIN trace} = visited
             /\ bottom_uuid \in Nodes(G) =>
                    (trace # <<>> /\ trace[Len(trace)].uuid = bottom_uuid))

HasContains(g, u, v) ==
    \E k \in DOMAIN g.edges : g.edges[k] = Edge(u, v, "CONTAINS")

\* a walk that came back to a node it had visited, on a cycle of two nodes
\* or more, and returned the partial trace
C17_Witness ==
    /\ Returned_
    /\ cur_uuid # NoNode /\ cur_uuid \in visited
    /\ cur_uuid # bottom_uuid
    /\ Len(trace) >= 2

\* ------------------------------------------------------------------------
\* C18  In a graph whose CONTAINS edges form a forest rooted at Document
\* nodes, the trace of a leaf of the graph is ordered root to leaf: the
\* first record is a Document, the last is the leaf, consecutive records
\* are joined by a CONTAINS edge, and there are as many records as nodes on
\* the leaf's path from its root. For an id absent from the graph the
\* trace is empty.
\* ------------------------------------------------------------------------
ParentSet(g, v) == {u \in Nodes(g) : HasContains(g, u, v)}

\* the node k CONTAINS steps above v, NoNode above a root
RECURSIVE Up(_, _, _)
Up(g, v, k) ==
    IF k = 0 \/ v = NoNode THEN v
    ELSE IF ParentSet(g, v) = {} THEN NoNode
         ELSE Up(g, CHOOSE u \in ParentSet(g, v) : TRUE, k - 1)

IsDocumentForest(g) ==
    /\ \A v \in Nodes(g) : Cardinality(ParentSet(g, v)) <= 1
    /\ \A v \in Nodes(g) : Up(g, v, Len(g.ntype)) = NoNode
    /\ \A v \in Nodes(g) : ParentSet(g, v) = {} => g.ntype[v] = "Document"

\* nodes on the path from the root of v down to v
Depth(g, v) == Cardinality({k \in 0..Len(g.ntype) : Up(g, v, k) # NoNode})

C18_TraceRootToLeaf ==
    Returned_ =>
        /\ bottom_uuid \notin Nodes(G) => trace = <<>>
        /\ (bottom_uuid \in Nodes(G) /\ IsDocumentForest(G)) =>
               /\ trace # <<>>
               /\ trace[1].ntype = "Document"
               /\ trace[Len(trace)].uuid = bottom_uuid
               /\ \A k \in 1..(Len(trace) - 1) :
                      HasContains(G, trace[k].uuid, trace[k + 1].uuid)
               /\ Len(trace) = Depth(G, bottom_uuid)

\* Document -> Section -> Paragraph
C18_Witness ==
    /\ Returned_
    /\ IsDocumentForest(G)
    /\ Len(trace) = 3
    /\ trace[1].ntype = "Document"
    /\ trace[2].ntype = "Section"
    /\ trace[3].ntype = "Paragraph"

\* ------------------------------------------------------------------------
\* C19  _collect_intents drops no intent: every Intent node at the end of
\* a HAS_INTENT edge from a node of the trace is listed under that node,
\* every Intent node at the end of a HAS_INTENT edge from a Trace node that
\* has a HAS_ANCHOR edge to the leaf is listed under the leaf; and the
\* intents listed under each node are the same whichever of the two paths
\* is collected first and in whatever order the edges were added.
\* ------------------------------------------------------------------------
HasEdge(g, u, v, r) == \E k \in DOMAIN g.edges : g.edges[k] = Edge(u, v, r)

IsIntent(g, v) == v \in Nodes(g) /\ g.ntype[v] = "Intent"

Listed(b, uuid_node, intent) ==
    \E k \in DOMAIN b :
        /\ b[k].uuid_node = uuid_node
        /\ \E j \in DOMAIN b[k].intents : b[k].intents[j] = intent

Keys(b) == {b[k].uuid_node : k \in DOMAIN b}

\* node key -> set of the intents listed under it
Content(b) == [n \in Keys(b) |-> {i \in 1..Len(G.ntype) : Listed(b, n, i)}]

AnchorsFirst(g, tr, leaf) ==
    FromTrace(g, FromAnchors(g, <<>>, leaf, AnchoringTraces(g, leaf)), tr)

Reordered(g, perm) ==
    [g EXCEPT !.edges = [k \in DOMAIN g.edges |-> g.edges[perm[k]]]]

C19_NoIntentDropped ==
    gpc = "collected" =>
        /\ \A k \in DOMAIN trace : \A i \in Nodes(G) :
               (HasEdge(G, trace[k].uuid, i, "HAS_INTENT") /\ IsIntent(G, i))
                   => Listed(intents_by_node, trace[k].uuid, i)
        /\ \A t \in Nodes(G) : \A i \in Nodes(G) :
               (/\ G.ntype[t] = "Trace"
                /\ HasEdge(G, t, bottom_uuid, "HAS_ANCHOR")
                /\ HasEdge(G, t, i, "HAS_INTENT") /\ IsIntent(G, i))
                   => Listed(intents_by_node, bottom_uuid, i)
        /\ Content(AnchorsFirst(G, trace, bottom_uuid)) = Content(intents_by_node)
        /\ \A perm \in Permutations(DOMAIN G.edges) :
               Content(_collect_intents(Reordered(G, perm), trace, bottom_uuid))
                   = Content(intents_by_node)

\* the leaf has an intent of its own and another one through its Trace
C19_Witness ==
    /\ gpc = "collected"
    /\ bottom_uuid = 2
    /\ HasEdge(G, 2, 4, "HAS_INTENT")
    /\ HasEdge(G, 3, 2, "HAS_ANCHOR")
    /\ HasEdge(G, 3, 5, "HAS_INTENT")
    /\ Listed(intents_by_node, 2, 4) /\ Listed(intents_by_node, 2, 5)

\* ------------------------------------------------------------------------
\* C20  The node keys of the result of _collect_intents are ids of trace
\* records or the leaf id, no key occurs in two entries, and no entry has
\* an empty intent list.
\* ------------------------------------------------------------------------
C20_IntentKeys ==
    gpc = "collected" =>
        /\ Keys(intents_by_node) \subseteq
               {trace[k].uuid : k \in DOMAIN trace} \cup {bottom_uuid}
        /\ \A a, b \in DOMAIN intents_by_node :
               a # b => intents_by_node[a].uuid_node # intents_by_node[b].uuid_node
        /\ \A k \in DOMAIN intents_by_node : intents_by_node[k].intents # <<>>

\* one entry for the Section above the leaf and one for the leaf
C20_Witness ==
    /\ gpc = "collected"
    /\ Len(trace) = 2
    /\ Len(intents_by_node) = 2
    /\ Keys(intents_by_node) = {1, 2}


\* ------------------------------------------------------------------------
\* ManifestGraph
\* ------------------------------------------------------------------------
\* the checksum string of the manifest, None when there is none
DeclaredChecksum ==
    IF manifest.integrity = None THEN None
    ELSE manifest.integrity[1].checksum

\* the manifest declares "<sha256 in any case>:<non-empty hex>"
DeclaresSha256 ==
    /\ DeclaredChecksum # None
    /\ Len(DeclaredChecksum[1]) >= 3
    /\ DeclaredChecksum[1][1] \in {"sha256", "SHA256"}
    /\ DeclaredChecksum[1][2] = ":"

DeclaredHex == SubSeq(DeclaredChecksum[1], 3, Len(DeclaredChecksum[1]))

BundlePaths ==
    Range(nodes_files) \cup Range(edges_files) \cup Range(index_path)

\* the digest of the bytes of the bundle files taken in path order
BundleDigest == <<"#">> \o Concat(disk, SortedSeq(BundlePaths))

\* the non-blank lines of the nodes files and of the edges files
NodeRecords == SelectSeq(Concat(disk, nodes_files), LAMBDA l : l # "")

EdgeRecords == SelectSeq(Concat(disk, edges_files), LAMBDA l : l # "")

\* a record that is not JSON / a record that is JSON but no object
ParseFailure ==
    \E l \in Range(NodeRecords) \cup Range(EdgeRecords) : l = "bad"

NoObject ==
    \E l \in Range(NodeRecords) \cup Range(EdgeRecords) : l = "list"

\* the ids of the node records that carry one
LoadedIds ==
    {json_loads(l).uuid : l \in Range(NodeRecords) \ {"bad", "list"}}
        \ {NoNode}

\* the (source, target) pairs of the edge records, in file order, that join
\* two loaded nodes
ExpectedEdges ==
    LET both(l) == /\ json_loads(l).source \in LoadedIds
                   /\ json_loads(l).target \in LoadedIds
        kept == SelectSeq(EdgeRecords, both)
    IN  [k \in DOMAIN kept |->
            <<json_loads(kept[k]).source, json_loads(kept[k]).target>>]

\* C21: when the declared digest differs from the computed one, load()
\* reports integrity "invalid", checksum_passed false and both hex values,
\* and the graph is loaded exactly when its records load: graph_loaded is
\* true with the node and edge counts of the graph built.
C21_LoadIndependentOfIntegrity ==
    (lpc = "load" /\ DeclaresSha256 /\ DeclaredHex # BundleDigest) =>
        /\ load_result.integrity.status = "invalid"
        /\ load_result.integrity.checksum_passed = FALSE
        /\ load_result.checksum_passed = FALSE
        /\ load_result.integrity.declared = Some(DeclaredHex)
        /\ load_result.integrity.computed = Some(BundleDigest)
        /\ load_result.graph_loaded = (~ParseFailure /\ ~NoObject)
        /\ load_result.graph_loaded =>
              /\ self_G # None
              /\ load_result.nodes = Cardinality(self_G[1].nodes)
              /\ load_result.edges = Len(self_G[1].edges)

C21_Witness ==
    /\ lpc = "load"
    /\ load_result.integrity.status = "invalid"
    /\ load_result.graph_loaded
    /\ load_result.nodes = 2
    /\ load_result.edges = 1

\* C22: the status is one of valid, invalid, missing, unsupported; missing
\* iff no checksum is declared; unsupported iff one is declared that is not
\* sha256 or has no hex part; otherwise valid iff the digest of the bundle
\* files in path order equals the declared hex; checksum_passed iff valid.
C22_IntegrityStatus ==
    lpc \in {"checksum_status", "load", "update_manifest"} =>
        LET st == integrity_result.status
            declares == DeclaredChecksum # None /\ DeclaredChecksum # Some(<<>>)
        IN  /\ st \in {"valid", "invalid", "missing", "unsupported"}
            /\ (st = "missing") = ~declares
            /\ (st = "unsupported") = (declares /\ ~DeclaresSha256)
            /\ (st = "valid") = (DeclaresSha256 /\ DeclaredHex = BundleDigest)
            /\ integrity_result.checksum_passed = (st = "valid")

\* a valid bundle whose files are listed in another order than path order
C22_Witness ==
    /\ lpc = "checksum_status"
    /\ integrity_result.status = "valid"
    /\ Concat(disk, nodes_files \o edges_files \o index_path)
          # Concat(disk, SortedSeq(BundlePaths))

\* C23: a load over a record that does not parse returns graph_loaded
\* false, nodes 0, edges 0 and a non-empty errors list, and every load
\* leaves in self.G either the graph it held or the graph of all records.
C23_FailedLoadKeepsGraph ==
    [][lpc' = "load" =>
          /\ (ParseFailure \/ NoObject) =>
                /\ load_result'.graph_loaded = FALSE
                /\ load_result'.nodes = 0
                /\ load_result'.edges = 0
                /\ load_result'.errors # <<>>
                /\ self_G' = self_G
          /\ \/ self_G' = self_G
             \/ self_G' = Some([nodes |-> LoadedIds, edges |-> ExpectedEdges])
      ]_vars

\* a load failed on a record after node records had been read
C23_Witness ==
    /\ lpc = "load"
    /\ load_result.errors # <<>>
    /\ LoadedIds # {}
    /\ self_G = None

\* C24: checksum_status() and load() leave the manifest, the bundle file
\* list and the files as they are; the manifest changes only in
\* update_manifest(), which reports valid, and so does the verification
\* that follows it.
C24_OnlyUpdateWritesManifest ==
    [][/\ lpc' \in {"checksum_status", "load"} =>
              UNCHANGED <<manifest, nodes_files, edges_files, index_path, disk>>
       /\ manifest' # manifest => lpc' = "update_manifest"
       /\ lpc' = "update_manifest" =>
              /\ UNCHANGED <<nodes_files, edges_files, index_path, disk>>
              /\ integrity_result'.status = "valid"
       /\ (lpc = "update_manifest" /\ lpc' = "checksum_status") =>
              integrity_result'.status = "valid"
      ]_vars

\* a verification that follows an update which stamped the manifest
C24_Witness ==
    /\ lpc = "checksum_status"
    /\ integrity_result.status = "valid"
    /\ manifest.integrity # None
    /\ manifest.integrity[1].content_rev = Some("utcnow")

\* C25: after a successful load the nodes are the ids of the node records,
\* the edges are exactly the edge records whose source and target are both
\* loaded nodes, parallel ones included and in file order, and the counts
\* reported are theirs.
C25_EdgesJoinLoadedNodes ==
    (lpc = "load" /\ load_result.graph_loaded) =>
        /\ self_G # None
        /\ self_G[1].nodes = LoadedIds
        /\ self_G[1].edges = ExpectedEdges
        /\ \A k \in DOMAIN self_G[1].edges :
              /\ self_G[1].edges[k][1] \in self_G[1].nodes
              /\ self_G[1].edges[k][2] \in self_G[1].nodes
        /\ load_result.nodes = Cardinality(LoadedIds)
        /\ load_result.edges = Len(ExpectedEdges)

\* one edge kept and one dropped for its absent target
C25_Witness ==
    /\ lpc = "load"
    /\ load_result.graph_loaded
    /\ Len(EdgeRecords) = 2
    /\ load_result.edges = 1

\* two parallel edges kept
C25_ParallelKept ==
    /\ lpc = "load"
    /\ load_result.graph_loaded
    /\ self_G # None
    /\ Len(self_G[1].edges) = 2
    /\ self_G[1].edges[1] = self_G[1].edges[2]

\* ------------------------------------------------------------------------
\* The outline and the section traces
\* ------------------------------------------------------------------------

\* the graph built from the same records with edge records i and j of the
\* edge file exchanged
SwapEdges(g, i, j) ==
    [g EXCEPT !.edges = [k \in DOMAIN g.edges |->
                            IF k = i THEN g.edges[j]
                            ELSE IF k = j THEN g.edges[i]
                            ELSE g.edges[k]]]

\* the uuids of the outline below (and including) a node, depth first
RECURSIVE Preorder(_)
Preorder(node) ==
    <<node.uuid>> \o Flatten([i \in DOMAIN node.children |->
                                Preorder(node.children[i])])

\* the outline's depth-first order: the position of each uuid
OutlineOrder(o) == IF o.root = <<>> THEN <<>> ELSE Preorder(o.root[1])

Position(q, x) == CHOOSE k \in DOMAIN q : q[k] = x

\* the children of the outline node of uuid u, in the outline's order
RECURSIVE ChildrenIn(_, _)
ChildrenIn(node, u) ==
    IF node.uuid = u THEN [i \in DOMAIN node.children |-> node.children[i].uuid]
    ELSE Flatten([i \in DOMAIN node.children |-> ChildrenIn(node.children[i], u)])

\* C26: the sibling order under every parent of the outline does not depend
\* on the order of the records in the files: the outline built from the
\* same edge records with any two of them exchanged is the same tree.
C26_FileOrderIndependent ==
    opc = "outline" =>
        \A i, j \in DOMAIN ops_G.edges :
            build_outline_for_frontend(SwapEdges(ops_G, i, j)).root = outline.root

\* C27: the traces listed under a Section are in the order of the outline
\* built from the same graph: of two rows of a Section's list anchored at
\* different paragraphs, the earlier one is anchored at the paragraph that
\* comes first in the depth-first order of the outline.
C27_TracesFollowOutline ==
    (section_traces.built /\ outline # NoOutline) =>
        \A sid \in DOMAIN section_traces.rows :
            LET rows == section_traces.rows[sid]
                order == OutlineOrder(outline)
            IN  \A i, j \in DOMAIN rows :
                    (/\ i < j
                     /\ rows[i].bottom_uuid # rows[j].bottom_uuid
                     /\ {rows[i].bottom_uuid, rows[j].bottom_uuid} \subseteq Range(order))
                    => Position(order, rows[i].bottom_uuid)
                           < Position(order, rows[j].bottom_uuid)

\* the nodes reachable from the nodes of S by CONTAINS edges, S included
RECURSIVE ContainsReach(_, _)
ContainsReach(g, S) ==
    LET T == S \cup {g.edges[k].tgt : k \in {j \in DOMAIN g.edges :
                        g.edges[j].relation = "CONTAINS" /\ g.edges[j].src \in S}}
    IN  IF T = S THEN S ELSE ContainsReach(g, T)

\* the Sections in the subtree of nid
SectionsUnder(g, nid) ==
    {n \in ContainsReach(g, {nid}) : g.ntype[n] = "Section"}

\* the least (major, minor) key of the Sections in the subtree of nid,
\* (INF, INF) when there is none
TrueMin(g, nid) ==
    LET ks == {section_key(g, n) : n \in SectionsUnder(g, nid)}
    IN  IF ks = {} THEN <<INF, INF>>
        ELSE CHOOSE k \in ks : \A h \in ks : k = h \/ LexLess(k, h)

\* two different children of one parent, both Subparts or both Headings
SiblingHeadings(g, a, b) ==
    /\ a # b
    /\ g.ntype[a] = g.ntype[b]
    /\ g.ntype[a] \in {"Subpart", "Heading"}
    /\ \E i, j \in DOMAIN g.edges :
          /\ g.edges[i].relation = "CONTAINS" /\ g.edges[i].tgt = a
          /\ g.edges[j].relation = "CONTAINS" /\ g.edges[j].tgt = b
          /\ g.edges[i].src = g.edges[j].src

\* a comes before b in the outline
Before(a, b) ==
    LET order == OutlineOrder(outline)
    IN  /\ {a, b} \subseteq Range(order)
        /\ Position(order, a) < Position(order, b)

\* sibling Subparts and Headings are in the order of the least section key
\* of their subtrees
ByMinKey ==
    \A a, b \in Nodes(ops_G) :
        (SiblingHeadings(ops_G, a, b)
            /\ LexLess(TrueMin(ops_G, a), TrueMin(ops_G, b))) => Before(a, b)

\* every memoized minimum is the least key of the Sections of the subtree
MemoIsTrueMin ==
    \A n \in DOMAIN outline.memo_min_key :
        outline.memo_min_key[n] # <<>>
            => outline.memo_min_key[n] = TrueMin(ops_G, n)

SiblingSections(g, a, b) ==
    /\ a # b
    /\ g.ntype[a] = "Section" /\ g.ntype[b] = "Section"
    /\ \E i, j \in DOMAIN g.edges :
          /\ g.edges[i].relation = "CONTAINS" /\ g.edges[i].tgt = a
          /\ g.edges[j].relation = "CONTAINS" /\ g.edges[j].tgt = b
          /\ g.edges[i].src = g.edges[j].src

\* two different Paragraphs under one parent
SiblingParagraphs(g, a, b) ==
    /\ a # b
    /\ g.ntype[a] = "Paragraph" /\ g.ntype[b] = "Paragraph"
    /\ \E i, j \in DOMAIN g.edges :
          /\ g.edges[i].relation = "CONTAINS" /\ g.edges[i].tgt = a
          /\ g.edges[j].relation = "CONTAINS" /\ g.edges[j].tgt = b
          /\ g.edges[i].src = g.edges[j].src

\* the string has a number pair major.minor somewhere
HasPair(s) == \E i \in DOMAIN s : PairAt(s, i)

\* the string begins, after blanks, with a number pair major.minor
BeginsWithPair(s) == PairAt(s, AfterSpaces(s))

\* the (major, minor) pair of the strings the graphs use
PairOf(s) ==
    CASE s = <<50, 53, 46, 57>> -> <<25, 9>>
      [] s = <<50, 53, 46, 49, 48>> -> <<25, 10>>
      [] OTHER -> <<INF, INF>>

\* C29: among sibling Sections and among sibling Paragraphs a node whose key
\* has no number pair comes after every sibling whose key has one; Sections
\* of equal (major, minor) are ordered by label, then title; Sections are
\* otherwise ordered by (major, minor) as integers (25.9 before 25.10).
C29_SectionAndParagraphOrder ==
    opc = "outline" =>
        /\ \A a, b \in Nodes(ops_G) :
              SiblingSections(ops_G, a, b) =>
                LET da == ops_G.data[a]
                    db == ops_G.data[b]
                    na == Or(da.number, da.label)
                    nb == Or(db.number, db.label)
                IN  /\ (HasPair(na) /\ ~HasPair(nb)) => Before(a, b)
                    /\ (HasPair(na) /\ HasPair(nb)) =>
                          /\ (\/ PairOf(na)[1] < PairOf(nb)[1]
                              \/ /\ PairOf(na)[1] = PairOf(nb)[1]
                                 /\ PairOf(na)[2] < PairOf(nb)[2]) => Before(a, b)
                          /\ (/\ PairOf(na) = PairOf(nb)
                              /\ LexLess(Str(da.label), Str(db.label))) => Before(a, b)
                          /\ (/\ PairOf(na) = PairOf(nb)
                              /\ da.label = db.label
                              /\ LexLess(Str(da.title), Str(db.title))) => Before(a, b)
        /\ \A a, b \in Nodes(ops_G) :
              (/\ SiblingParagraphs(ops_G, a, b)
               /\ BeginsWithPair(ops_G.data[a].paragraph_id)
               /\ ~BeginsWithPair(ops_G.data[b].paragraph_id)) => Before(a, b)

\* Section 25.10 comes first in the edge file and Section 25.9 first in the
\* outline
C29_Witness ==
    /\ opc = "outline"
    /\ \E a, b \in Nodes(ops_G) :
          /\ SiblingSections(ops_G, a, b)
          /\ ops_G.data[a].number = <<50, 53, 46, 57>>
          /\ ops_G.data[b].number = <<50, 53, 46, 49, 48>>
          /\ \E i, j \in DOMAIN ops_G.edges :
                i < j /\ ops_G.edges[i].tgt = b /\ ops_G.edges[j].tgt = a
          /\ Before(a, b)

\* a Section without number comes first in the edge file and after its
\* numbered sibling in the outline; likewise two Paragraphs
C29_UnparsableLast ==
    /\ opc = "outline"
    /\ \E a, b \in Nodes(ops_G) :
          /\ SiblingSections(ops_G, a, b) \/ SiblingParagraphs(ops_G, a, b)
          /\ \/ HasPair(ops_G.data[a].number) /\ ops_G.data[b].number = <<>>
             \/ /\ BeginsWithPair(ops_G.data[a].paragraph_id)
                /\ ops_G.data[b].paragraph_id = <<40, 97, 41>>
          /\ \E i, j \in DOMAIN ops_G.edges :
                i < j /\ ops_G.edges[i].tgt = b /\ ops_G.edges[j].tgt = a
          /\ Before(a, b)

Listings(nf, ef) == Orders(Range(nf)) \X Orders(Range(ef))

\* C31: a verification of the unchanged bundle and manifest gives the
\* status and the computed digest of the verification before it, and both
\* are those of the same files listed by the manifest in any other order.
C31_VerifyDeterministic ==
    [][lpc' \in {"checksum_status", "load"} =>
          /\ (lpc # "constructed") => integrity_result' = integrity_result
          /\ \A l \in Listings(nodes_files, edges_files) :
                /\ checksum_status(manifest, disk, l[1], l[2], index_path)
                      = integrity_result'
                /\ _hash_files(disk, _bundle_files(l[1], l[2], index_path))
                      = BundleDigest]_vars

\* a bundle of three files listed out of path order has been verified and
\* found invalid, the payload carrying the computed digest
C31_Witness ==
    /\ lpc = "checksum_status"
    /\ integrity_result.status = "invalid"
    /\ integrity_result.computed = Some(BundleDigest)
    /\ Cardinality(BundlePaths) = 3
    /\ nodes_files \o edges_files \o index_path # SortedSeq(BundlePaths)
    /\ \E p, q \in BundlePaths : disk[p] # disk[q]

\* C32: after the load no traversal, collection, builder, enrichment or
\* attachment adds, removes or changes a node, an edge or an attribute of
\* the graph.
C32_GraphIsReadOnly ==
    [][ops_G' = ops_G /\ G' = G]_vars

\* the outline is built and enriched, the section traces are built, a
\* result is attached and the records of the bottom paragraph are made
C32_Witness ==
    /\ opc = "section_traces"
    /\ section_traces.built
    /\ outline # NoOutline
    /\ "intents" \in outline.root[1].children[1].keys
    /\ results[3] # <<>>
    /\ gpc = "collected"
    /\ trace # <<>>
    /\ G = [ntype |-> ops_G.ntype, edges |-> ops_G.edges]

\* the Sections above node b on the CONTAINS edges
SectionsAbove(g, b) ==
    {a \in Nodes(g) \ {b} : g.ntype[a] = "Section" /\ b \in ContainsReach(g, {a})}

\* the Section above b that lies beneath every other Section above b
NearestSection(g, b) ==
    CHOOSE s \in SectionsAbove(g, b) :
        \A a \in SectionsAbove(g, b) : s \in ContainsReach(g, {a})

\* the places <<section, position>> at which the lists hold Trace t
PlacesOf(rows, t) ==
    {h \in UNION {{<<sid, i>> : i \in DOMAIN rows[sid]} : sid \in DOMAIN rows} :
        rows[h[1]][h[2]].trace_uuid = t}

\* the Traces with a bottom_uuid in the graph that lies beneath a Section
AnchoredTraces(g) ==
    {t \in Nodes(g) : /\ g.ntype[t] = "Trace"
                      /\ g.data[t].bottom_uuid \in Nodes(g)
                      /\ SectionsAbove(g, g.data[t].bottom_uuid) # {}}

\* C33: every Trace anchored beneath a Section is listed once, in the list
\* of the nearest Section above its anchor and in no other; no Trace is
\* listed twice; the lookup entry of the Trace names that Section and the
\* zero-based position of the Trace in the Section's list.
C33_TraceInOneSection ==
    section_traces.built =>
        /\ \A t \in AnchoredTraces(ops_G) :
              LET b == ops_G.data[t].bottom_uuid
                  s == NearestSection(ops_G, b)
                  at == PlacesOf(section_traces.rows, t)
              IN  /\ Cardinality(at) = 1
                  /\ \A h \in at : h[1] = s
                  /\ Len(section_traces.lookup[t]) = 1
                  /\ section_traces.lookup[t][1].section_uuid = s
                  /\ section_traces.lookup[t][1].bottom_uuid = b
                  /\ \A h \in at : section_traces.lookup[t][1].index + 1 = h[2]
        /\ \A t \in Nodes(ops_G) : Cardinality(PlacesOf(section_traces.rows, t)) <= 1

\* a Trace in the list of a nested Section and a Trace in the list of the
\* Section around it
C33_Witness ==
    /\ section_traces.built
    /\ Cardinality(AnchoredTraces(ops_G)) = 2
    /\ \E s1, s2 \in Nodes(ops_G) :
          /\ s1 # s2
          /\ s2 \in SectionsAbove(ops_G, s1)
          /\ Len(section_traces.rows[s1]) >= 1
          /\ Len(section_traces.rows[s2]) >= 1
          /\ \E t \in AnchoredTraces(ops_G) :
                /\ Cardinality(SectionsAbove(ops_G, ops_G.data[t].bottom_uuid)) = 2
                /\ section_traces.lookup[t][1].section_uuid = s1

\* two Traces in the list of one Section, next to a Trace without
\* bottom_uuid or beneath no Section
C33_SharedList ==
    /\ section_traces.built
    /\ \E s \in Nodes(ops_G) : Len(section_traces.rows[s]) >= 2

C33_Unlisted ==
    /\ section_traces.built
    /\ \E t \in Nodes(ops_G) :
          /\ ops_G.ntype[t] = "Trace"
          /\ t \notin AnchoredTraces(ops_G)
          /\ ops_G.data[t].bottom_uuid # NoNode

RECURSIVE SumOfSizes(_)
SumOfSizes(cs) == IF cs = <<>> THEN 0 ELSE Head(cs).size + SumOfSizes(Tail(cs))

\* the clusters whose need_ids hold id
ClustersOf(res, id) ==
    {i \in DOMAIN res.clusters : id \in Range(res.clusters[i].need_ids)}

\* C34: the call returns the trivial result exactly when less than three
\* items have a statement that is not blank; otherwise what it returns has
\* at least one cluster, every usable need_id is in one cluster only, which
\* the map names, and the sizes of the clusters add up to the number of
\* usable items.
C34_ClusteringCoversUsable ==
    cpc = "returned" =>
        LET u == usable(need_items)
            blank == {i \in DOMAIN need_items : strip(need_items[i].statement) = <<>>}
        IN  /\ (cluster_result = Trivial) <=> (Len(need_items) - Cardinality(blank) < 3)
            /\ Len(u) = Len(need_items) - Cardinality(blank)
            /\ (cluster_result # Trivial) =>
                  /\ cluster_result.k >= 1
                  /\ cluster_result.k = Len(cluster_result.clusters)
                  /\ \A j \in DOMAIN u :
                        /\ u[j].need_id \in DOMAIN cluster_result.map
                        /\ ClustersOf(cluster_result, u[j].need_id)
                               = {cluster_result.map[u[j].need_id]}
                  /\ \A i \in DOMAIN cluster_result.clusters :
                        /\ cluster_result.clusters[i].cluster_id = i
                        /\ cluster_result.clusters[i].size
                               = Len(cluster_result.clusters[i].need_ids)
                        /\ cluster_result.clusters[i].size >= 1
                  /\ SumOfSizes(cluster_result.clusters) = Len(u)

\* exactly three of four items have a statement and two clusters are
\* returned; and two usable items give the trivial result
C34_Witness ==
    /\ cpc = "returned"
    /\ Len(need_items) = 4
    /\ Len(usable(need_items)) = 3
    /\ cluster_result.k = 2
    /\ cluster_result.clusters[1].size = 2

C34_TrivialAtTwo ==
    /\ cpc = "returned"
    /\ Len(usable(need_items)) = 2
    /\ \E i \in DOMAIN need_items : need_items[i].statement = <<32>>
    /\ cluster_result = Trivial

\* the events of the stream among those given to the bus
Forwarded == SelectSeq(relayed, LAMBDA e : e.of # 0)

\* C35: every event of the pipeline that is no batch_progress is given to
\* the bus once, under its new name, and the events given to the bus are
\* in the order in which the pipeline produced them; only batch_progress
\* events are left out.
C35_RelayKeepsOrder ==
    /\ \A j \in DOMAIN Forwarded :
          /\ Forwarded[j].of \in DOMAIN produced
          /\ Forwarded[j].type = _frs_wrap(produced[Forwarded[j].of])
    /\ \A i, j \in DOMAIN Forwarded : i < j => Forwarded[i].of < Forwarded[j].of
    /\ \A p \in DOMAIN produced :
          produced[p] # "batch_progress" =>
              Cardinality({j \in DOMAIN Forwarded : Forwarded[j].of = p}) = 1

\* a progress tick was dropped between two events that were relayed, the
\* first of them a progress tick too
C35_Witness ==
    /\ rpc = "findRelevantSections.nodeDone"
    /\ Len(produced) = 3
    /\ produced[1] = "batch_progress"
    /\ produced[2] = "batch_progress"
    /\ produced[3] = "batch_end"
    /\ Len(Forwarded) = 2
    /\ Forwarded[2].type = "findRelevantSections.batchEnd"

\* the progress events among what the generator has yielded
ProgressYielded ==
    LET ps == SelectSeq(yielded, LAMBDA y : y.source = "progress")
    IN  [i \in DOMAIN ps |-> ps[i].payload]

\* C36: when the merged stream has ended, every progress event that was
\* put on the queue before the graph stream ended has been yielded once,
\* in the order of the queue, and so has every update of the graph.
C36_MergeLosesNothing ==
    mpc = "finished" =>
        /\ ProgressYielded = [i \in 1..puts |-> i]
        /\ SelectSeq(yielded, LAMBDA y : y.source = "graph")
               = [i \in 1..updates |-> [source |-> "graph", payload |-> i]]

\* what is yielded is never out of order or yielded twice
C36_MergeKeepsOrder ==
    /\ \A i, j \in DOMAIN ProgressYielded :
          i < j => ProgressYielded[i] < ProgressYielded[j]
    /\ \A i \in DOMAIN ProgressYielded : ProgressYielded[i] \in 1..puts

\* C37: the events the nodes of a run emit go to the emitter of that run;
\* the emitter of a run that is active stays registered, whatever other
\* runs begin or end, two runs of one tab_id included; the emitter of a
\* run that has ended is not registered.
C37_RunsKeepTheirEmitters ==
    /\ \A i \in DOMAIN delivered : delivered[i].to = delivered[i].from
    /\ \A r \in Runs : run_pc[r] = "active" => _emitters[_key(run_tab[r])] = r
    /\ \A r \in Runs : run_pc[r] = "ended" => \A k \in Tabs : _emitters[k] # r

\* the part that holds: no emitter of a run that has ended is registered,
\* and runs of different tab_ids keep their emitters
C37_EndedRunsAreUnregistered ==
    /\ \A r \in Runs : run_pc[r] = "ended" => \A k \in Tabs : _emitters[k] # r
    /\ \A r \in Runs :
          (/\ run_pc[r] = "active"
           /\ \A o \in Runs \ {r} : run_pc[o] = "idle" \/ run_tab[o] # run_tab[r])
          => _emitters[_key(run_tab[r])] = r

\* the places of the log at which an entry of this kind and type stands
LogAt(kind, type) ==
    {i \in DOMAIN needs_log : needs_log[i].kind = kind /\ needs_log[i].type = type}

\* the runEnd that answers the run_end of the stream
RunEndAt == {i \in LogAt("emit", "needsTables.runEnd") : needs_log[i].of = "run_end"}

\* the errors of clustering and of strand tagging
CallErrors ==
    {i \in LogAt("emit", "needsTables.error") :
        needs_log[i].node \in {"cluster_needs_pipeline", "tag_needs_with_strands"}}

C38_NotFrozen ==
    /\ ~frozen
    /\ npc = "returned"
    /\ Len(needs_stream) > 2

\* C39: a subset that is given but empty filters nothing: every Trace of
\* the graph is evaluated, in graph order, as when no subset is given (cut
\* by the limit alone), and the total of run_start, the number of leaves
\* picked, is the full count; the relay node passes a stored selection
\* that is empty on as the empty list, and gives no limit.
C39_EmptySubsetIsNoFilter ==
    /\ selected_ids(Some(<<>>)) = <<>>
    /\ (spc = "returned" /\ selected_trace_ids = Some(selected_ids(Some(<<>>)))) =>
          /\ limit = None =>
                /\ picked = graph_traces
                /\ Len(picked) = Len(graph_traces)
          /\ (limit # None /\ limit[1] >= 1) =>
                picked = SubSeq(graph_traces, 1, Min(limit[1], Len(graph_traces)))
          /\ \A t \in Range(picked) : t \in Range(graph_traces)

\* the call the relay node makes for an empty stored selection, on a graph
\* of three Traces
C39_Witness ==
    /\ spc = "returned"
    /\ selected_trace_ids = Some(<<>>)
    /\ limit = None
    /\ Len(graph_traces) = 3
    /\ picked = graph_traces

\* the paragraph_id ends with the token of one letter a..z
EndsWithLetter(pid) ==
    /\ Len(pid) > 3
    /\ pid[Len(pid) - 2] = 40 /\ pid[Len(pid) - 1] \in Letters /\ pid[Len(pid)] = 41

\* the paragraph_id without its last token of one letter
Stem(pid) == SubSeq(pid, 1, Len(pid) - 3)

\* paragraph_id q is p followed by further tokens
Extends(q, p) == Len(q) > Len(p) /\ IsPrefix(p, q) /\ q[Len(p) + 1] = 40

\* C40: sibling Paragraphs whose ids differ in a last token of one letter
\* only are in the order of the alphabet, for every two letters a..z; a
\* Paragraph comes before every sibling whose id is its own id followed by
\* more tokens.
C40_LettersInAlphabetOrder ==
    opc = "outline" =>
        \A a, b \in Nodes(ops_G) :
            SiblingParagraphs(ops_G, a, b) =>
                LET pa == ops_G.data[a].paragraph_id
                    pb == ops_G.data[b].paragraph_id
                IN  /\ (/\ EndsWithLetter(pa) /\ EndsWithLetter(pb)
                        /\ Stem(pa) = Stem(pb)
                        /\ pa[Len(pa) - 1] < pb[Len(pb) - 1]) => Before(a, b)
                    /\ Extends(pb, pa) => Before(a, b)

\* the letters that are roman numerals of _ROMAN: i, v, x
RomanLetters == {l \in Letters : \E n \in DOMAIN _ROMAN : _ROMAN[n] = <<l>>}

\* what holds: the order of the alphabet among the letters that are no
\* roman numeral, the roman numerals i, v, x before them in the order of
\* their value, and an id before the ids that extend it
C40_RomanLettersFirst ==
    opc = "outline" =>
        \A a, b \in Nodes(ops_G) :
            SiblingParagraphs(ops_G, a, b) =>
                LET pa == ops_G.data[a].paragraph_id
                    pb == ops_G.data[b].paragraph_id
                    la == pa[Len(pa) - 1]
                    lb == pb[Len(pb) - 1]
                IN  /\ (/\ EndsWithLetter(pa) /\ EndsWithLetter(pb)
                        /\ Stem(pa) = Stem(pb)) =>
                           /\ (la \in RomanLetters /\ lb \notin RomanLetters) => Before(a, b)
                           /\ (RomanLetters \cap {la, lb} \in {{}, {la, lb}} /\ la < lb)
                                  => Before(a, b)
                    /\ Extends(pb, pa) => Before(a, b)

====
